---- MODULE Spec2Model ----
(***************************************************************************)
(* A model of Shopify/position-observer: the PositionObserver engine, its  *)
(* VisibilityObserver, PositionIntersectionObserver and RootBoundsObserver,*)
(* and the Rect / rootMargin / threshold utilities, together with the host *)
(* notifiers they subscribe to (IntersectionObserver, ResizeObserver and   *)
(* the viewport resize event).                                             *)
(*                                                                         *)
(* Lengths are integers counted in units of 1/U CSS pixel, so that         *)
(* Math.round is a real conversion.  The root of the engine is the         *)
(* viewport.  A RootBoundsObserver on its own, for an element root and for *)
(* the window, is the subject of SpecRoot, the clipping round trip of Rect *)
(* on drawn rects that of SpecRect, and Rect.intersect and rootMargin on   *)
(* drawn pairs of rects that of SpecPair; while the engine runs, the       *)
(* variables of these three are idle.  SpecFair is the engine with a host  *)
(* whose event loop keeps running while a notification is due.             *)
(*                                                                         *)
(* The host follows the IntersectionObserver and ResizeObserver standards: *)
(*  - an intersection observer queues an entry for a target when the       *)
(*    target's threshold index or intersecting state differs from the one  *)
(*    of its previous entry (always for a new registration); this happens  *)
(*    for all observers in one step, HostIOUpdate;                         *)
(*  - the queued entries are delivered later, by one notification task     *)
(*    that visits each observer with queued entries, HostIONotify;         *)
(*    unobserve() and disconnect() remove targets but not queued entries,  *)
(*    so a callback can run after its observer was disconnected;           *)
(*  - a resize observer reports, in one step, the targets whose size       *)
(*    differs from the last reported one, HostResize; observe() of an      *)
(*    observed target starts a new observation with nothing reported;      *)
(*  - the viewport's resize event is dispatched to the listener after the  *)
(*    viewport changed, HostViewportResize.                                *)
(* Elements have no transform: the border-box size is the size of the      *)
(* bounding client rect.  The caller's callback only records its batch.    *)
(***************************************************************************)
EXTENDS Integers, Sequences, FiniteSets, TLC

\* ------------------------------------------------------------------------
\* Bounds of the model
\* ------------------------------------------------------------------------

\* length units per CSS pixel
U == 2

\* number of user / world operations in one behaviour
MaxOps == 3

\* number of user / world operations in one settled behaviour
MaxSettledOps == 3

Elems == {"e1", "e2"}

Rect(x, y, w, h) == [x |-> x, y |-> y, width |-> w, height |-> h]

\* a rect given in whole pixels
Px(x, y, w, h) == Rect(x * U, y * U, w * U, h * U)

\* element boxes the layout can produce: home, moved by (2px, 1px), resized
\* to 6px wide, entirely outside of every viewport, and moved by (0px, 2px)
\* outside of every viewport
BoxHome == Px(2, 2, 4, 4)
BoxMoved == Px(4, 3, 4, 4)
BoxWide == Px(2, 2, 6, 4)
BoxOut == Px(30, 2, 4, 4)
BoxOutMoved == Px(30, 4, 4, 4)
OutBoxes == {BoxOut, BoxOutMoved}
Boxes == {BoxHome, BoxMoved, BoxWide} \cup OutBoxes

\* viewport sizes
ViewBig == Px(0, 0, 16, 12)
ViewSmall == Px(0, 0, 14, 12)
Views == {ViewBig, ViewSmall}

\* ------------------------------------------------------------------------
\* Absent values
\* ------------------------------------------------------------------------

None == [none |-> TRUE]

Max(a, b) == IF a >= b THEN a ELSE b
Min(a, b) == IF a <= b THEN a ELSE b

\* ------------------------------------------------------------------------
\* utilities/Rect.ts
\* ------------------------------------------------------------------------

\* A DOMRect has its edges derived from x, y, width, height; the plain
\* object made by Rect.clip carries its own edges.
IsPlain(r) == "top" \in DOMAIN r

left(r) == IF IsPlain(r) THEN r.left ELSE r.x
top(r) == IF IsPlain(r) THEN r.top ELSE r.y
right(r) == IF IsPlain(r) THEN r.right ELSE r.x + r.width
bottom(r) == IF IsPlain(r) THEN r.bottom ELSE r.y + r.height

\* Math.round of a length, in whole pixels (halves round towards +infinity)
round(v) == (2 * v + U) \div (2 * U)

\* an intersect that does not clamp the size of an empty intersection
intersectUnclamped(rect1, rect2) ==
  LET l == Max(left(rect1), left(rect2))
      r == Min(right(rect1), right(rect2))
      t == Max(top(rect1), top(rect2))
      b == Min(bottom(rect1), bottom(rect2))
  IN  Rect(l, t, r - l, b - t)

intersect(rect1, rect2) ==
  LET l == Max(left(rect1), left(rect2))
      r == Min(right(rect1), right(rect2))
      t == Max(top(rect1), top(rect2))
      b == Min(bottom(rect1), bottom(rect2))
  IN  Rect(l, t, Max(0, r - l), Max(0, b - t))

\* the result of clip is a plain object: x and y are copied from rect by
\* toJSON, the four edges and the size are recomputed
clip(rect, c) ==
  LET t == top(rect) + c.top
      l == left(rect) + c.left
      b == bottom(rect) - c.bottom
      r == right(rect) - c.right
  IN  [x |-> rect.x, y |-> rect.y, width |-> r - l, height |-> b - t,
       top |-> t, left |-> l, bottom |-> b, right |-> r]

clipOffsets(rect, clippedRect) ==
  [top |-> top(clippedRect) - top(rect),
   left |-> left(clippedRect) - left(rect),
   bottom |-> bottom(rect) - bottom(clippedRect),
   right |-> right(rect) - right(clippedRect)]

equals(rect1, rect2) ==
  IF rect1 = None \/ rect2 = None
  THEN rect1 = rect2
  ELSE /\ rect1.x = rect2.x
       /\ rect1.y = rect2.y
       /\ rect1.width = rect2.width
       /\ rect1.height = rect2.height

sizeEqual(rect1, rect2) ==
  /\ round(rect1.width) = round(rect2.width)
  /\ round(rect1.height) = round(rect2.height)

\* the threshold table, in thousandths: i / 1000 for i in 0 .. 999, then 1
ThresholdSteps == 1000

\* a table that holds i / 1000 for i in 0 .. 1000, and then 1 once more
thresholdInclusive ==
  [i \in 1..(ThresholdSteps + 2) |->
     IF i <= ThresholdSteps + 1 THEN i - 1 ELSE ThresholdSteps]

threshold ==
  [i \in 1..(ThresholdSteps + 1) |->
     IF i <= ThresholdSteps THEN i - 1 ELSE ThresholdSteps]

\* ------------------------------------------------------------------------
\* utilities/rootMargin.ts
\* ------------------------------------------------------------------------

\* in pixels
INSET == -1
MIN_SIZE == 1 - INSET * 2

\* a rootMargin that takes the size of the rect as it is
rootMarginUnclamped(rect, rb) ==
  LET width == rect.width
      height == rect.height
      t == top(rect) - top(rb) - INSET * U
      l == left(rect) - left(rb) - INSET * U
      r == right(rb) - left(rect) - width - INSET * U
      b == bottom(rb) - top(rect) - height - INSET * U
  IN  [top |-> -round(t), right |-> -round(r),
       bottom |-> -round(b), left |-> -round(l)]

\* the four margins in whole pixels (the "px" strings of the source)
rootMargin(rect, rb) ==
  LET width == Max(rect.width, MIN_SIZE * U)
      height == Max(rect.height, MIN_SIZE * U)
      t == top(rect) - top(rb) - INSET * U
      l == left(rect) - left(rb) - INSET * U
      r == right(rb) - left(rect) - width - INSET * U
      b == bottom(rb) - top(rect) - height - INSET * U
  IN  [top |-> -round(t), right |-> -round(r),
       bottom |-> -round(b), left |-> -round(l)]

\* ------------------------------------------------------------------------
\* State
\* ------------------------------------------------------------------------

VARIABLES
  box,               \* layout: the bounding client rect of every element
  view,              \* layout: the rect of the viewport (the root)
  rootBounds,        \* RootBoundsObserver.rootBounds
  rbConnected,       \* RootBoundsObserver: the resize listener is attached
  visLive,           \* VisibilityObserver.#observers holds the document's observer
  visTargets,        \* host: observation targets of that observer, in order
  visReg,            \* host: its registration per target
  visPending,        \* host: batches queued for VisibilityObserver.#callback
  visOpen,           \* host: the last batch belongs to the current observer
  intersections,     \* VisibilityObserver.intersections
  positionObservers, \* PositionObserver.#positionObservers (element -> object)
  poKeys,            \* insertion order of the keys of #positionObservers
  positions,         \* PositionObserver.#positions
  roTargets,         \* host: targets of PositionObserver.#resizeObserver
  roLast,            \* host: last reported size per target
  pio,               \* the PositionIntersectionObserver objects
  resizePending,     \* host: a viewport resize event awaits dispatch
  calls,             \* history: the batches given to the caller's callback
  since,             \* history: per element, the entries given to the
                     \* callback since the element was last unobserved
  gated,             \* history: some non-empty batch was rejected whole by
                     \* the deduplication gate
  nops,              \* history: number of user / world operations so far
  hist,              \* history: the operations of a settled run, each
                     \* with the number of callback invocations before it
  silent,            \* history: disconnect() was called, no observe() since
  unobserved,        \* history: elements unobserved and not observed since
  everObserved       \* history: observe() was called at least once

\* a RootBoundsObserver on its own, with a callback that records what it
\* is given
VARIABLES
  rbKind,            \* what getRoot(target) is: "element" or "window"
  rbRect,            \* layout: the rect of that root now
  rbBounds,          \* RootBoundsObserver.rootBounds
  rbSeen,            \* host: the size last reported by #resizeObserver
  rbEvents,          \* host: the events that await dispatch to a listener
  rbLive,            \* disconnect() has not been called
  rbLog,             \* history: per invocation of the callback, the rect
                     \* passed and the observer's rootBounds at that time
  rbSteps            \* history: number of operations on this observer

\* the arguments and the result of a clipping round trip
VARIABLES
  outer,             \* the rect that is clipped
  inner,             \* the part of it that is to remain
  clipped            \* Rect.clip(outer, Rect.clipOffsets(outer, inner))

\* two rects and what a utility makes of them
VARIABLES
  rectA,             \* the first rect; for rootMargin the element's rect
  rectB,             \* the second rect; for rootMargin the root bounds
  computed           \* the utility applied and its result

engineVars ==
  <<box, view, rootBounds, rbConnected, visLive, visTargets, visReg,
    visPending, visOpen, intersections, positionObservers, poKeys, positions,
    roTargets, roLast, pio, resizePending, calls, since, gated, nops, hist, silent, unobserved,
    everObserved>>

rootVars ==
  <<rbKind, rbRect, rbBounds, rbSeen, rbEvents, rbLive, rbLog, rbSteps>>

rectVars == <<outer, inner, clipped>>

pairVars == <<rectA, rectB, computed>>

vars == <<engineVars, rootVars, rectVars, pairVars>>

\* the part of the state the handlers of the engine read and write
Mem ==
  [pio |-> pio, po |-> positionObservers, pok |-> poKeys, pos |-> positions,
   rot |-> roTargets, rol |-> roLast, ints |-> intersections,
   rb |-> rootBounds, calls |-> calls, since |-> since, gated |-> gated]

\* ------------------------------------------------------------------------
\* Host: IntersectionObserver
\* ------------------------------------------------------------------------

area(r) == r.width * r.height

ZeroRect == Rect(0, 0, 0, 0)

\* target and root intersect or are edge-adjacent
Touches(target, root) ==
  /\ left(target) <= right(root)
  /\ left(root) <= right(target)
  /\ top(target) <= bottom(root)
  /\ top(root) <= bottom(target)

\* the root intersection rectangle: the root grown by the margins (px)
Zone(root, m) ==
  Rect(left(root) - m.left * U, top(root) - m.top * U,
       Max(0, root.width + (m.left + m.right) * U),
       Max(0, root.height + (m.top + m.bottom) * U))

NoMargin == [top |-> 0, right |-> 0, bottom |-> 0, left |-> 0]

\* intersectionRatio as a fraction
Ratio(n, d) == [n |-> n, d |-> d]

ratioEqual(a, b) ==
  IF a = None \/ b = None THEN a = b ELSE a.n * b.d = b.n * a.d

\* index of the first threshold greater than the ratio, or the table length
ThresholdIndex(r) ==
  IF r.n >= r.d THEN ThresholdSteps + 1 ELSE (ThresholdSteps * r.n) \div r.d + 1

\* one observation of a target by an observer whose root is the viewport
Observation(e, m) ==
  LET target == box[e]
      zone == Zone(view, m)
      isInt == Touches(target, zone)
      ir == IF isInt THEN intersect(target, zone) ELSE ZeroRect
      ratio == IF area(target) > 0 THEN Ratio(area(ir), area(target))
               ELSE IF isInt THEN Ratio(1, 1) ELSE Ratio(0, 1)
  IN  [target |-> e, boundingClientRect |-> target, intersectionRect |-> ir,
       isIntersecting |-> isInt, intersectionRatio |-> ratio]

InitialReg == [thresholdIndex |-> -1, isIntersecting |-> FALSE]

RegOf(o) ==
  [thresholdIndex |-> ThresholdIndex(o.intersectionRatio),
   isIntersecting |-> o.isIntersecting]

\* ------------------------------------------------------------------------
\* Host: ResizeObserver of the engine
\* ------------------------------------------------------------------------

Size(w, h) == [width |-> w, height |-> h]

ZeroSize == Size(0, 0)

Without(seq, e) == LET Keep(x) == x # e IN SelectSeq(seq, Keep)

InSeq(seq, e) == \E i \in 1..Len(seq) : seq[i] = e

\* observe(target): an observed target is unobserved first, so that the
\* observation is new and nothing has been reported for it
RO_observe(M, t) ==
  [M EXCEPT !.rot = Append(Without(M.rot, t), t), !.rol[t] = ZeroSize]

\* a ResizeObserver.unobserve that leaves the subscription in place
RO_unobserveKept(M, t) == M

RO_unobserve(M, t) ==
  [M EXCEPT !.rot = Without(M.rot, t), !.rol[t] = ZeroSize]

RO_disconnect(M) ==
  [M EXCEPT !.rot = <<>>, !.rol = [e \in Elems |-> ZeroSize]]

\* ------------------------------------------------------------------------
\* observers/PositionIntersectionObserver.ts : PositionIntersectionObserver
\* ------------------------------------------------------------------------

\* options.clip, the getter given by PositionObserver.#observePosition
clipOf(M, element) ==
  LET intersection == M.ints[element]
  IN  IF intersection = None THEN None
      ELSE clipOffsets(intersection.boundingClientRect,
                       intersection.intersectionRect)

\* a visibleRect that clips by nothing when there is no clip, and so gives
\* a copy of the rect with the fields of a clipped one
visibleRectAlwaysClipped(M, p) ==
  LET c == clipOf(M, p.elem)
  IN  IF c # None THEN clip(p.clientRect, c)
      ELSE clip(p.clientRect, [top |-> 0, left |-> 0, bottom |-> 0, right |-> 0])

visibleRect(M, p) ==
  LET c == clipOf(M, p.elem)
  IN  IF c # None THEN clip(p.clientRect, c) ELSE p.clientRect

isIntersecting(M, p) ==
  LET v == visibleRect(M, p) IN v.width > 0 /\ v.height > 0

\* #observe: the previous host observer is disconnected (what it has queued
\* stays queued) and a new one is created around the visible rect
PIO_observe(M, id) ==
  LET p == M.pio[id]
  IN  [M EXCEPT !.pio[id] =
         [p EXCEPT !.observer = TRUE, !.live = TRUE, !.open = FALSE,
                   !.reg = InitialReg,
                   !.margins = rootMargin(visibleRect(M, p), p.rootBounds)]]

\* disconnect(): the host observer is disconnected; #observer stays set
PIO_disconnect(M, id) ==
  [M EXCEPT !.pio[id].live = FALSE, !.pio[id].open = FALSE]

FreshId(f) ==
  CHOOSE i \in 1..(Cardinality(DOMAIN f) + 1) :
    i \notin DOMAIN f /\ \A j \in 1..(i - 1) : j \in DOMAIN f

\* constructor
PIO_new(M, id, element, clientRect) ==
  LET p == [elem |-> element, observer |-> FALSE, live |-> FALSE,
            open |-> FALSE, reg |-> InitialReg, margins |-> NoMargin,
            clientRect |-> clientRect, previousIntersectionRatio |-> None,
            rootBounds |-> M.rb, pending |-> <<>>]
      M1 == [M EXCEPT !.pio =
               [i \in DOMAIN M.pio \cup {id} |->
                  IF i = id THEN p ELSE M.pio[i]]]
  IN  PIO_observe(M1, id)

\* ------------------------------------------------------------------------
\* PositionObserver (the engine)
\* ------------------------------------------------------------------------

PositionObserverEntry(target, bcr, ir, isInt, rb) ==
  [target |-> target, boundingClientRect |-> bcr, intersectionRect |-> ir,
   isIntersecting |-> isInt, rootBounds |-> rb]

\* an equality rule that never holds
isEntryEqualNever(first, second) == FALSE

isEntryEqual(first, second) ==
  IF second = None THEN FALSE
  ELSE /\ first.target = second.target
       /\ first.isIntersecting = second.isIntersecting
       /\ equals(first.boundingClientRect, second.boundingClientRect)
       /\ equals(first.intersectionRect, second.intersectionRect)

\* a gate that forwards the entries it accepts without caching them
RECURSIVE notifyLoopNoStore(_, _, _)
notifyLoopNoStore(pos, records, entries) ==
  IF entries = <<>> THEN [pos |-> pos, records |-> records]
  ELSE LET entry == Head(entries)
           previousEntry == pos[entry.target]
       IN  IF isEntryEqual(entry, previousEntry)
           THEN notifyLoopNoStore(pos, records, Tail(entries))
           ELSE notifyLoopNoStore(pos, Append(records, entry), Tail(entries))

RECURSIVE notifyLoop(_, _, _)
notifyLoop(pos, records, entries) ==
  IF entries = <<>> THEN [pos |-> pos, records |-> records]
  ELSE LET entry == Head(entries)
           previousEntry == pos[entry.target]
       IN  IF isEntryEqual(entry, previousEntry)
           THEN notifyLoop(pos, records, Tail(entries))
           ELSE notifyLoop([pos EXCEPT ![entry.target] = entry],
                           Append(records, entry), Tail(entries))

\* the entries of a batch that are for element e
For(e, records) == LET Is(x) == x.target = e IN SelectSeq(records, Is)

\* what the caller's callback sees: the batch is appended to calls
callback(M, records) ==
  [M EXCEPT !.calls = Append(@, records),
            !.since = [e \in Elems |-> @[e] \o For(e, records)]]

\* the callback invoked once for every record
RECURSIVE callbackEach(_, _)
callbackEach(M, records) ==
  IF records = <<>> THEN M
  ELSE callbackEach(callback(M, <<Head(records)>>), Tail(records))

\* a gate that does not merge the records it accepts into one invocation
notifyEach(M, entries) ==
  LET r == notifyLoop(M.pos, <<>>, entries)
      M1 == [M EXCEPT !.pos = r.pos,
                      !.gated = @ \/ (Len(entries) > 0 /\ Len(r.records) = 0)]
  IN  callbackEach(M1, r.records)

\* a gate that invokes the callback with whatever is left of the batch
notifyAlways(M, entries) ==
  LET r == notifyLoop(M.pos, <<>>, entries)
      M1 == [M EXCEPT !.pos = r.pos,
                      !.gated = @ \/ (Len(entries) > 0 /\ Len(r.records) = 0)]
  IN  callback(M1, r.records)

\* #notify
notify(M, entries) ==
  LET r == notifyLoop(M.pos, <<>>, entries)
      M1 == [M EXCEPT !.pos = r.pos,
                      !.gated = @ \/ (Len(entries) > 0 /\ Len(r.records) = 0)]
  IN  IF Len(r.records) > 0 THEN callback(M1, r.records) ELSE M1

\* #observePosition; the new object is M'.pio[M'.po[element]]
observePosition(M, element, clientRect) ==
  LET M1 == IF M.po[element] # 0 THEN PIO_disconnect(M, M.po[element]) ELSE M
      id == FreshId(M1.pio)
      M2 == PIO_new(M1, id, element, clientRect)
  IN  [M2 EXCEPT !.po[element] = id,
                 !.pok = IF InSeq(@, element) THEN @ ELSE Append(@, element)]

\* a visibility reaction that leaves the tracker and the size subscription
\* of an element that no longer intersects in place
RECURSIVE onVisibilityChangeLoopKeep(_, _, _)
onVisibilityChangeLoopKeep(M, entries, records) ==
  IF entries = <<>> THEN [M |-> M, records |-> records]
  ELSE LET entry == Head(entries)
           target == entry.target
           M1 == IF entry.isIntersecting
                 THEN RO_observe(
                        observePosition(M, target, entry.boundingClientRect),
                        target)
                 ELSE M
           observer == M1.po[target]
           ir == IF observer # 0 THEN visibleRect(M1, M1.pio[observer])
                 ELSE entry.intersectionRect
           record == PositionObserverEntry(target, entry.boundingClientRect,
                                           ir, entry.isIntersecting, M1.rb)
       IN  onVisibilityChangeLoopKeep(M1, Tail(entries),
                                      Append(records, record))

RECURSIVE onVisibilityChangeLoop(_, _, _)
onVisibilityChangeLoop(M, entries, records) ==
  IF entries = <<>> THEN [M |-> M, records |-> records]
  ELSE LET entry == Head(entries)
           target == entry.target
           M1 == IF entry.isIntersecting
                 THEN RO_observe(
                        observePosition(M, target, entry.boundingClientRect),
                        target)
                 ELSE LET Md == IF M.po[target] # 0
                                THEN PIO_disconnect(M, M.po[target]) ELSE M
                      IN  RO_unobserve(
                            [Md EXCEPT !.po[target] = 0,
                                       !.pok = Without(@, target)],
                            target)
           observer == M1.po[target]
           ir == IF observer # 0 THEN visibleRect(M1, M1.pio[observer])
                 ELSE entry.intersectionRect
           record == PositionObserverEntry(target, entry.boundingClientRect,
                                           ir, entry.isIntersecting, M1.rb)
       IN  onVisibilityChangeLoop(M1, Tail(entries), Append(records, record))

onVisibilityChange(M, entries) ==
  LET r == onVisibilityChangeLoop(M, entries, <<>>)
  IN  notify(r.M, r.records)

onPositionChange(M, entry, id) ==
  notify(M, <<PositionObserverEntry(entry.target, entry.boundingClientRect,
                                    visibleRect(M, M.pio[id]),
                                    entry.isIntersecting, M.rb)>>)

\* a size reaction that measures every reported element again, whatever
\* its size
RECURSIVE onResizeLoopAlways(_, _, _)
onResizeLoopAlways(M, entries, records) ==
  IF entries = <<>> THEN [M |-> M, records |-> records]
  ELSE LET entry == Head(entries)
           target == entry.target
           boundingClientRect == box[target]
           M1 == observePosition(M, target, boundingClientRect)
           observer == M1.pio[M1.po[target]]
           isInt == IF M1.ints[target] # None
                    THEN M1.ints[target].isIntersecting ELSE FALSE
           record == PositionObserverEntry(
                       target, boundingClientRect,
                       visibleRect(M1, observer), isInt, M1.rb)
       IN  onResizeLoopAlways(M1, Tail(entries), Append(records, record))

RECURSIVE onResizeLoop(_, _, _)
onResizeLoop(M, entries, records) ==
  IF entries = <<>> THEN [M |-> M, records |-> records]
  ELSE LET entry == Head(entries)
           target == entry.target
           previous == M.pos[target]
       IN  IF previous # None
              /\ sizeEqual(previous.boundingClientRect, entry.borderBoxSize)
           THEN onResizeLoop(M, Tail(entries), records)
           ELSE LET boundingClientRect == box[target]
                    M1 == observePosition(M, target, boundingClientRect)
                    observer == M1.pio[M1.po[target]]
                    isInt == IF M1.ints[target] # None
                             THEN M1.ints[target].isIntersecting ELSE FALSE
                    record == PositionObserverEntry(
                                target, boundingClientRect,
                                visibleRect(M1, observer), isInt, M1.rb)
                IN  onResizeLoop(M1, Tail(entries), Append(records, record))

onResize(M, entries) ==
  LET r == onResizeLoop(M, entries, <<>>)
  IN  notify(r.M, r.records)

\* a root-bounds reaction that reuses the rect its tracker was created
\* with instead of measuring the element
RECURSIVE onRootBoundsChangeLoopCached(_, _, _, _)
onRootBoundsChangeLoopCached(M, keys, rb, entries) ==
  IF keys = <<>> THEN [M |-> M, entries |-> entries]
  ELSE LET element == Head(keys)
           boundingClientRect == M.pio[M.po[element]].clientRect
           M1 == observePosition(M, element, boundingClientRect)
           observer == M1.pio[M1.po[element]]
           entry == PositionObserverEntry(
                      element, boundingClientRect, visibleRect(M1, observer),
                      isIntersecting(M1, observer), rb)
       IN  onRootBoundsChangeLoopCached(M1, Tail(keys), rb,
                                        Append(entries, entry))

RECURSIVE onRootBoundsChangeLoop(_, _, _, _)
onRootBoundsChangeLoop(M, keys, rb, entries) ==
  IF keys = <<>> THEN [M |-> M, entries |-> entries]
  ELSE LET element == Head(keys)
           boundingClientRect == box[element]
           M1 == observePosition(M, element, boundingClientRect)
           observer == M1.pio[M1.po[element]]
           entry == PositionObserverEntry(
                      element, boundingClientRect, visibleRect(M1, observer),
                      isIntersecting(M1, observer), rb)
       IN  onRootBoundsChangeLoop(M1, Tail(keys), rb, Append(entries, entry))

onRootBoundsChange(M, rb) ==
  LET r == onRootBoundsChangeLoop(M, M.pok, rb, <<>>)
  IN  notify(r.M, r.entries)

\* an #onIntersection that does not leave elements outside the root to the
\* VisibilityObserver
onIntersectionNoRootCheck(M, id, entry) ==
  LET p == M.pio[id]
  IN  IF ~p.observer THEN M
      ELSE
        LET boundingClientRect == entry.boundingClientRect
            previousClientRect == p.clientRect
            previousIntersectionRatio == p.previousIntersectionRatio
            clientRectChanged == ~equals(boundingClientRect, previousClientRect)
            M1 == [M EXCEPT !.pio[id].clientRect = boundingClientRect]
        IN  IF ~ratioEqual(entry.intersectionRatio, previousIntersectionRatio)
               \/ clientRectChanged
            THEN
              LET rootIntersection == intersect(boundingClientRect, p.rootBounds)
                  isInt == rootIntersection.width > 0
                           /\ rootIntersection.height > 0
              IN  IF FALSE THEN M1
                  ELSE
                    LET M2 == [M1 EXCEPT !.pio[id].previousIntersectionRatio =
                                           entry.intersectionRatio]
                    IN  IF previousIntersectionRatio # None \/ clientRectChanged
                        THEN PIO_observe(
                               onPositionChange(
                                 M2, [entry EXCEPT !.isIntersecting = isInt], id),
                               id)
                        ELSE M2
            ELSE M1

\* PositionIntersectionObserver.#onIntersection, for the last entry of a batch
\* an #onIntersection that subscribes anew also when the notification
\* brings nothing new
onIntersectionRestless(M, id, entry) ==
  LET p == M.pio[id]
  IN  IF ~p.observer THEN M
      ELSE
        LET boundingClientRect == entry.boundingClientRect
            previousClientRect == p.clientRect
            previousIntersectionRatio == p.previousIntersectionRatio
            clientRectChanged == ~equals(boundingClientRect, previousClientRect)
            M1 == [M EXCEPT !.pio[id].clientRect = boundingClientRect]
        IN  IF ~ratioEqual(entry.intersectionRatio, previousIntersectionRatio)
               \/ clientRectChanged
            THEN
              LET rootIntersection == intersect(boundingClientRect, p.rootBounds)
                  isInt == rootIntersection.width > 0
                           /\ rootIntersection.height > 0
              IN  IF ~isInt THEN M1
                  ELSE
                    LET M2 == [M1 EXCEPT !.pio[id].previousIntersectionRatio =
                                           entry.intersectionRatio]
                    IN  IF previousIntersectionRatio # None \/ clientRectChanged
                        THEN PIO_observe(
                               onPositionChange(
                                 M2, [entry EXCEPT !.isIntersecting = isInt], id),
                               id)
                        ELSE M2
            ELSE PIO_observe(M1, id)

onIntersection(M, id, entry) ==
  LET p == M.pio[id]
  IN  IF ~p.observer THEN M
      ELSE
        LET boundingClientRect == entry.boundingClientRect
            previousClientRect == p.clientRect
            previousIntersectionRatio == p.previousIntersectionRatio
            clientRectChanged == ~equals(boundingClientRect, previousClientRect)
            M1 == [M EXCEPT !.pio[id].clientRect = boundingClientRect]
        IN  IF ~ratioEqual(entry.intersectionRatio, previousIntersectionRatio)
               \/ clientRectChanged
            THEN
              LET rootIntersection == intersect(boundingClientRect, p.rootBounds)
                  isInt == rootIntersection.width > 0
                           /\ rootIntersection.height > 0
              IN  IF ~isInt THEN M1
                  ELSE
                    LET M2 == [M1 EXCEPT !.pio[id].previousIntersectionRatio =
                                           entry.intersectionRatio]
                    IN  IF previousIntersectionRatio # None \/ clientRectChanged
                        THEN PIO_observe(
                               onPositionChange(
                                 M2, [entry EXCEPT !.isIntersecting = isInt], id),
                               id)
                        ELSE M2
            ELSE M1

\* ------------------------------------------------------------------------
\* observers/VisibilityObserver.ts
\* ------------------------------------------------------------------------

\* a callback that forwards every entry of the batch
RECURSIVE VO_callbackLoopAll(_, _, _)
VO_callbackLoopAll(ints, entries, changedEntries) ==
  IF entries = <<>> THEN [ints |-> ints, changedEntries |-> changedEntries]
  ELSE LET entry == Head(entries)
       IN  VO_callbackLoopAll([ints EXCEPT ![entry.target] = entry],
                              Tail(entries), Append(changedEntries, entry))

RECURSIVE VO_callbackLoop(_, _, _)
VO_callbackLoop(ints, entries, changedEntries) ==
  IF entries = <<>> THEN [ints |-> ints, changedEntries |-> changedEntries]
  ELSE LET entry == Head(entries)
           previousIntersection == ints[entry.target]
           changed ==
             IF previousIntersection = None THEN TRUE
             ELSE \/ previousIntersection.isIntersecting # entry.isIntersecting
                  \/ ~equals(previousIntersection.intersectionRect,
                             entry.intersectionRect)
       IN  VO_callbackLoop([ints EXCEPT ![entry.target] = entry],
                           Tail(entries),
                           IF changed THEN Append(changedEntries, entry)
                           ELSE changedEntries)

\* the #callback given to the host observers of the VisibilityObserver
VO_callback(M, entries) ==
  LET r == VO_callbackLoop(M.ints, entries, <<>>)
      M1 == [M EXCEPT !.ints = r.ints]
  IN  IF Len(r.changedEntries) > 0
      THEN onVisibilityChange(M1, r.changedEntries)
      ELSE M1

\* ------------------------------------------------------------------------
\* observers/RootBoundsObserver: the viewport branch
\* ------------------------------------------------------------------------

getWindowRect == Rect(0, 0, view.width, view.height)

handleResize(M) ==
  LET rect == getWindowRect
  IN  IF equals(M.rb, rect) THEN M
      ELSE onRootBoundsChange([M EXCEPT !.rb = rect], rect)

\* ------------------------------------------------------------------------
\* Steps
\* ------------------------------------------------------------------------

\* objects that nothing refers to any more are forgotten
Collect(f, po) ==
  LET keep == {i \in DOMAIN f :
                 \/ f[i].live
                 \/ f[i].pending # <<>>
                 \/ \E e \in Elems : po[e] = i}
  IN  [i \in keep |-> f[i]]

Commit(M) ==
  /\ pio' = Collect(M.pio, M.po)
  /\ positionObservers' = M.po
  /\ poKeys' = M.pok
  /\ positions' = M.pos
  /\ roTargets' = M.rot
  /\ roLast' = M.rol
  /\ intersections' = M.ints
  /\ rootBounds' = M.rb
  /\ calls' = M.calls
  /\ since' = M.since
  /\ gated' = M.gated
  /\ UNCHANGED <<rootVars, rectVars, pairVars>>

World == <<box, view, resizePending>>
VisHost == <<visLive, visTargets, visReg, visPending, visOpen>>
Flags == <<silent, unobserved, everObserved>>

\* an observe that evaluates the element's visibility before it returns
observeEager(element) ==
  LET o == Observation(element, NoMargin)
  IN  /\ visLive' = TRUE
      /\ visTargets' = IF visLive THEN Append(Without(visTargets, element),
                                              element)
                       ELSE <<element>>
      /\ visReg' = [e \in Elems |->
                      IF e = element THEN RegOf(o)
                      ELSE IF visLive THEN visReg[e] ELSE None]
      /\ UNCHANGED <<visPending, visOpen, rbConnected>>
      /\ Commit(VO_callback(Mem, <<o>>))
      /\ silent' = FALSE
      /\ unobserved' = unobserved \ {element}
      /\ everObserved' = TRUE

\* PositionObserver.observe -> VisibilityObserver.observe
observe(element) ==
  /\ visLive' = TRUE
  /\ IF ~visLive
     THEN /\ visTargets' = <<element>>
          /\ visReg' = [e \in Elems |-> IF e = element THEN InitialReg ELSE None]
     ELSE IF InSeq(visTargets, element)
     THEN UNCHANGED <<visTargets, visReg>>
     ELSE /\ visTargets' = Append(visTargets, element)
          /\ visReg' = [visReg EXCEPT ![element] = InitialReg]
  /\ UNCHANGED <<visPending, visOpen, rbConnected>>
  /\ Commit(Mem)
  /\ silent' = FALSE
  /\ unobserved' = unobserved \ {element}
  /\ everObserved' = TRUE

\* an unobserve that leaves the element's last accepted entry in place
unobserveKeepPosition(element) ==
  LET M1 == IF positionObservers[element] # 0
            THEN PIO_disconnect(Mem, positionObservers[element]) ELSE Mem
      M2 == IF visLive THEN [M1 EXCEPT !.ints[element] = None] ELSE M1
  IN  /\ IF visLive
         THEN /\ visTargets' = Without(visTargets, element)
              /\ visReg' = [visReg EXCEPT ![element] = None]
         ELSE UNCHANGED <<visTargets, visReg>>
      /\ UNCHANGED <<visLive, visPending, visOpen, rbConnected>>
      /\ Commit([M2 EXCEPT !.since[element] = <<>>])
      /\ unobserved' = unobserved \cup {element}
      /\ UNCHANGED <<silent, everObserved>>

\* PositionObserver.unobserve(element) -> VisibilityObserver.unobserve
unobserve(element) ==
  LET M1 == IF positionObservers[element] # 0
            THEN PIO_disconnect(Mem, positionObservers[element]) ELSE Mem
      M2 == IF visLive THEN [M1 EXCEPT !.ints[element] = None] ELSE M1
  IN  /\ IF visLive
         THEN /\ visTargets' = Without(visTargets, element)
              /\ visReg' = [visReg EXCEPT ![element] = None]
         ELSE UNCHANGED <<visTargets, visReg>>
      /\ UNCHANGED <<visLive, visPending, visOpen, rbConnected>>
      /\ Commit([M2 EXCEPT !.pos[element] = None, !.since[element] = <<>>])
      /\ unobserved' = unobserved \cup {element}
      /\ UNCHANGED <<silent, everObserved>>

\* a disconnect whose VisibilityObserver keeps its map of host observers
disconnectKeepObservers ==
  LET M1 == [Mem EXCEPT
               !.pio = [i \in DOMAIN @ |->
                          IF \E e \in Elems : positionObservers[e] = i
                          THEN [@[i] EXCEPT !.live = FALSE, !.open = FALSE]
                          ELSE @[i]],
               !.po = [e \in Elems |-> 0],
               !.pok = <<>>]
  IN  /\ Commit(RO_disconnect(M1))
      /\ rbConnected' = FALSE
      /\ visLive' = visLive
      /\ visTargets' = <<>>
      /\ visReg' = [e \in Elems |-> None]
      /\ visOpen' = FALSE
      /\ UNCHANGED visPending
      /\ silent' = TRUE
      /\ UNCHANGED <<unobserved, everObserved>>

\* PositionObserver.disconnect -> RootBoundsObserver.disconnect,
\* VisibilityObserver.disconnect
disconnect ==
  LET M1 == [Mem EXCEPT
               !.pio = [i \in DOMAIN @ |->
                          IF \E e \in Elems : positionObservers[e] = i
                          THEN [@[i] EXCEPT !.live = FALSE, !.open = FALSE]
                          ELSE @[i]],
               !.po = [e \in Elems |-> 0],
               !.pok = <<>>]
  IN  /\ Commit(RO_disconnect(M1))
      /\ rbConnected' = FALSE
      /\ visLive' = FALSE
      /\ visTargets' = <<>>
      /\ visReg' = [e \in Elems |-> None]
      /\ visOpen' = FALSE
      /\ UNCHANGED visPending
      /\ silent' = TRUE
      /\ UNCHANGED <<unobserved, everObserved>>

\* the operations of the caller and of the layout
Ops ==
  [op : {"observe", "unobserve"}, e : Elems]
    \cup {[op |-> "disconnect"]}
    \cup [op : {"move"}, e : Elems, to : Boxes]
    \cup [op : {"viewport"}, to : Views]

Do(o) ==
  /\ nops' = nops + 1
  /\ CASE o.op = "observe" -> observe(o.e) /\ UNCHANGED World
       [] o.op = "unobserve" -> unobserve(o.e) /\ UNCHANGED World
       [] o.op = "disconnect" -> disconnect /\ UNCHANGED World
       [] o.op = "move" ->
            /\ o.to # box[o.e]
            \* the second outside box is entered from the first only
            /\ o.to = BoxOutMoved => box[o.e] = BoxOut
            /\ box' = [box EXCEPT ![o.e] = o.to]
            /\ UNCHANGED <<view, resizePending, rbConnected>>
            /\ UNCHANGED VisHost
            /\ UNCHANGED Flags
            /\ Commit(Mem)
       [] o.op = "viewport" ->
            /\ o.to # view
            /\ view' = o.to
            /\ resizePending' = TRUE
            /\ UNCHANGED <<box, rbConnected>>
            /\ UNCHANGED VisHost
            /\ UNCHANGED Flags
            /\ Commit(Mem)

Observe ==
  /\ nops < MaxOps
  /\ \E e \in Elems : Do([op |-> "observe", e |-> e]) /\ UNCHANGED hist

Unobserve ==
  /\ nops < MaxOps
  /\ \E e \in Elems : Do([op |-> "unobserve", e |-> e]) /\ UNCHANGED hist

Disconnect ==
  /\ nops < MaxOps
  /\ Do([op |-> "disconnect"]) /\ UNCHANGED hist

Move ==
  /\ nops < MaxOps
  /\ \E e \in Elems, b \in Boxes :
       Do([op |-> "move", e |-> e, to |-> b]) /\ UNCHANGED hist

ResizeViewport ==
  /\ nops < MaxOps
  /\ \E v \in Views : Do([op |-> "viewport", to |-> v]) /\ UNCHANGED hist

\* --- host steps ---------------------------------------------------------

RECURSIVE VisScan(_, _, _)
VisScan(targets, reg, entries) ==
  IF targets = <<>> THEN [reg |-> reg, entries |-> entries]
  ELSE LET t == Head(targets)
           o == Observation(t, NoMargin)
       IN  IF RegOf(o) # reg[t]
           THEN VisScan(Tail(targets), [reg EXCEPT ![t] = RegOf(o)],
                        Append(entries, o))
           ELSE VisScan(Tail(targets), reg, entries)

VisDue == visLive /\ VisScan(visTargets, visReg, <<>>).entries # <<>>

PIODue(id) ==
  /\ pio[id].live
  /\ RegOf(Observation(pio[id].elem, pio[id].margins)) # pio[id].reg

\* the entry the host queues for a fine tracker whose threshold or state
\* changed; only the last entry of a batch is read by its callback
PIOScan(p) ==
  LET o == Observation(p.elem, p.margins)
  IN  IF p.live /\ RegOf(o) # p.reg
      THEN [p EXCEPT !.reg = RegOf(o), !.open = TRUE,
                     !.pending = IF p.open
                                 THEN [@ EXCEPT ![Len(@)] = o]
                                 ELSE Append(@, o)]
      ELSE p

\* the host's "update intersection observations" step: every live observer
\* of the document queues an entry for each target whose threshold index
\* or intersecting state changed since its last entry
HostIOUpdate ==
  LET r == VisScan(visTargets, visReg, <<>>)
  IN  /\ VisDue \/ \E id \in DOMAIN pio : PIODue(id)
      /\ visReg' = r.reg
      /\ IF r.entries # <<>>
         THEN /\ visPending' =
                   IF visOpen
                   THEN [visPending EXCEPT ![Len(visPending)] = @ \o r.entries]
                   ELSE Append(visPending, r.entries)
              /\ visOpen' = TRUE
         ELSE UNCHANGED <<visPending, visOpen>>
      /\ Commit([Mem EXCEPT !.pio = [i \in DOMAIN pio |-> PIOScan(pio[i])]])
      /\ UNCHANGED <<visLive, visTargets, rbConnected, nops, hist>>
      /\ UNCHANGED World
      /\ UNCHANGED Flags

RECURSIVE DeliverVis(_, _)
DeliverVis(M, batches) ==
  IF batches = <<>> THEN M
  ELSE DeliverVis(VO_callback(M, Head(batches)), Tail(batches))

RECURSIVE DeliverPIOLoop(_, _, _)
DeliverPIOLoop(M, id, batches) ==
  IF batches = <<>> THEN M
  ELSE DeliverPIOLoop(onIntersection(M, id, Head(batches)), id, Tail(batches))

\* the batches queued by the host observers of one fine tracker
DeliverPIO(M, id) ==
  DeliverPIOLoop([M EXCEPT !.pio[id].pending = <<>>, !.pio[id].open = FALSE],
                 id, M.pio[id].pending)

\* observers with queued entries; 0 stands for the VisibilityObserver's
Sources ==
  {id \in DOMAIN pio : pio[id].pending # <<>>}
    \cup (IF visPending # <<>> THEN {0} ELSE {})

Orders(S) ==
  {f \in [1..Cardinality(S) -> S] :
     \A i, j \in 1..Cardinality(S) : f[i] = f[j] => i = j}

RECURSIVE NotifyLoop(_, _)
NotifyLoop(M, order) ==
  IF order = <<>> THEN M
  ELSE NotifyLoop(IF Head(order) = 0 THEN DeliverVis(M, visPending)
                  ELSE DeliverPIO(M, Head(order)),
                  Tail(order))

\* the host's "notify intersection observers" task: every observer with
\* queued entries has its callback invoked with them, one after the other
HostIONotify ==
  /\ Sources # {}
  /\ \E order \in Orders(Sources) : Commit(NotifyLoop(Mem, order))
  /\ visPending' = <<>>
  /\ visOpen' = FALSE
  /\ UNCHANGED <<visLive, visTargets, visReg, rbConnected, nops, hist>>
  /\ UNCHANGED World
  /\ UNCHANGED Flags

RoActive ==
  LET Changed(t) == Size(box[t].width, box[t].height) # roLast[t]
  IN  SelectSeq(roTargets, Changed)

\* the host reports the targets whose size differs from the last report
HostResize ==
  LET active == RoActive
      entries == [i \in 1..Len(active) |->
                    [target |-> active[i],
                     borderBoxSize |->
                       Size(box[active[i]].width, box[active[i]].height)]]
      M1 == [Mem EXCEPT !.rol =
               [e \in Elems |->
                  IF InSeq(active, e)
                  THEN Size(box[e].width, box[e].height) ELSE @[e]]]
  IN  /\ active # <<>>
      /\ Commit(onResize(M1, entries))
      /\ UNCHANGED <<rbConnected, nops, hist>>
      /\ UNCHANGED VisHost
      /\ UNCHANGED World
      /\ UNCHANGED Flags

\* the host dispatches the viewport's resize event
HostViewportResize ==
  /\ resizePending
  /\ resizePending' = FALSE
  /\ IF rbConnected THEN Commit(handleResize(Mem)) ELSE Commit(Mem)
  /\ UNCHANGED <<box, view, rbConnected, nops, hist>>
  /\ UNCHANGED VisHost
  /\ UNCHANGED Flags

\* nothing is queued and the host has nothing to report
Quiescent ==
  /\ visPending = <<>>
  /\ ~VisDue
  /\ \A id \in DOMAIN pio : pio[id].pending = <<>> /\ ~PIODue(id)
  /\ RoActive = <<>>
  /\ ~resizePending

\* ------------------------------------------------------------------------
\* Specifications
\* ------------------------------------------------------------------------

\* the RootBoundsObserver on its own is not in use
RootIdle ==
  /\ rbKind = "window"
  /\ rbRect = ViewBig
  /\ rbBounds = ViewBig
  /\ rbSeen = ZeroSize
  /\ rbEvents = {}
  /\ rbLive = FALSE
  /\ rbLog = <<>>
  /\ rbSteps = 0

\* no clipping round trip is in progress
RectIdle ==
  /\ outer = None
  /\ inner = None
  /\ clipped = None

\* no utility is applied to a pair of rects
PairIdle ==
  /\ rectA = None
  /\ rectB = None
  /\ computed = None

\* the engine after construction; the layout is arbitrary
EngineInit ==
  /\ box \in [Elems -> {BoxHome, BoxOut}]
  /\ view = ViewBig
  /\ rootBounds = Rect(0, 0, view.width, view.height)
  /\ rbConnected = TRUE
  /\ visLive = FALSE
  /\ visTargets = <<>>
  /\ visReg = [e \in Elems |-> None]
  /\ visPending = <<>>
  /\ visOpen = FALSE
  /\ intersections = [e \in Elems |-> None]
  /\ positionObservers = [e \in Elems |-> 0]
  /\ poKeys = <<>>
  /\ positions = [e \in Elems |-> None]
  /\ roTargets = <<>>
  /\ roLast = [e \in Elems |-> ZeroSize]
  /\ pio = [i \in {} |-> None]
  /\ resizePending = FALSE
  /\ calls = <<>>
  /\ since = [e \in Elems |-> <<>>]
  /\ gated = FALSE
  /\ nops = 0
  /\ hist = <<>>
  /\ silent = FALSE
  /\ unobserved = {}
  /\ everObserved = FALSE

\* after construction
Init ==
  /\ EngineInit
  /\ RootIdle
  /\ RectIdle
  /\ PairIdle

\* every interleaving of operations and host steps
Next ==
  \/ Observe
  \/ Unobserve
  \/ Disconnect
  \/ Move
  \/ ResizeViewport
  \/ HostIOUpdate
  \/ HostIONotify
  \/ HostResize
  \/ HostViewportResize

Spec == Init /\ [][Next]_vars

\* an operation happens only once the host has delivered everything the
\* previous ones caused, as in the test suite
Settled ==
  /\ nops < MaxSettledOps
  /\ Quiescent
  /\ \E o \in Ops : Do(o) /\ hist' = Append(hist, [o |-> o, at |-> Len(calls)])

NextSettled ==
  \/ Settled
  \/ HostIOUpdate
  \/ HostIONotify
  \/ HostResize
  \/ HostViewportResize

SpecSettled == Init /\ [][NextSettled]_vars

\* a step of the host's event loop
HostStep ==
  \/ HostIOUpdate
  \/ HostIONotify
  \/ HostResize
  \/ HostViewportResize

\* the host's event loop keeps running while a notification step is due:
\* weak fairness of the host's steps, WF_vars(HostStep), written out as
\* "infinitely often nothing is due, or infinitely often a step is taken".
\* A step that is due changes the state, so "something is due" is the
\* enabling condition of HostStep
HostFairness == []<>Quiescent \/ []<><<HostStep>>_vars

SpecFair == Init /\ [][Next]_vars /\ HostFairness

\* ------------------------------------------------------------------------
\* observers/RootBoundsObserver on its own, for an element root and for the
\* window.  The root is not transformed: the border-box size the
\* ResizeObserver reports is the size of its bounding client rect.
\* ------------------------------------------------------------------------

MaxRootSteps == 4

\* the sizes the root can take: two that differ by 2px, and for each one
\* that is narrower by a fraction of a pixel and rounds to the same size
RootSizes ==
  {Size(16 * U, 12 * U), Size(16 * U - 1, 12 * U),
   Size(14 * U, 12 * U), Size(14 * U - 1, 12 * U)}

SizeOf(rect) == Size(rect.width, rect.height)

\* the observer's fields, and what its callback was given
Rbo == [rootBounds |-> rbBounds, log |-> rbLog]

\* the callback of the constructor: it records the rect and the rootBounds
\* of the observer it is handed
RBO_callback(R, rect) ==
  [R EXCEPT !.log = Append(@, [rect |-> rect, rootBounds |-> R.rootBounds])]

\* an element-root resize handler that tells sizes apart exactly
RBO_onRootResizeExact(R, entries) ==
  LET entry == entries[1]
  IN  IF SizeOf(R.rootBounds) = entry.borderBoxSize THEN R
      ELSE LET rect == rbRect
           IN  RBO_callback([R EXCEPT !.rootBounds = rect], rect)

\* the ResizeObserver callback of an element root; the root is the only
\* target, so that a batch has one entry
RBO_onRootResize(R, entries) ==
  LET entry == entries[1]
  IN  IF sizeEqual(R.rootBounds, entry.borderBoxSize) THEN R
      ELSE LET rect == rbRect
           IN  RBO_callback([R EXCEPT !.rootBounds = rect], rect)

\* the capturing scroll listener of an element root, for the scroll of an
\* ancestor of the root
RBO_onScroll(R) ==
  LET R1 == [R EXCEPT !.rootBounds = rbRect]
  IN  RBO_callback(R1, R1.rootBounds)

RBO_getWindowRect == Rect(0, 0, rbRect.width, rbRect.height)

\* a window resize handler that hands the rect over before it stores it
RBO_handleResizeLate(R) ==
  LET rect == RBO_getWindowRect
  IN  IF equals(R.rootBounds, rect) THEN R
      ELSE [RBO_callback(R, rect) EXCEPT !.rootBounds = rect]

\* the resize listener of the window
RBO_handleResize(R) ==
  LET rect == RBO_getWindowRect
  IN  IF equals(R.rootBounds, rect) THEN R
      ELSE RBO_callback([R EXCEPT !.rootBounds = rect], rect)

CommitRoot(R) ==
  /\ rbBounds' = R.rootBounds
  /\ rbLog' = R.log
  /\ UNCHANGED <<engineVars, rectVars, pairVars>>

\* layout: the root takes another size
RootResize ==
  /\ rbSteps < MaxRootSteps
  /\ \E size \in RootSizes \ {SizeOf(rbRect)} :
       rbRect' = [rbRect EXCEPT !.width = size.width, !.height = size.height]
  /\ rbEvents' = IF rbKind = "window" THEN rbEvents \cup {"resize"}
                 ELSE rbEvents
  /\ rbSteps' = rbSteps + 1
  /\ CommitRoot(Rbo)
  /\ UNCHANGED <<rbKind, rbSeen, rbLive>>

\* layout: an ancestor of an element root is scrolled by 1px, to and fro
RootScroll ==
  /\ rbSteps < MaxRootSteps
  /\ rbKind = "element"
  /\ rbRect' = [rbRect EXCEPT !.y = U - @]
  /\ rbEvents' = rbEvents \cup {"scroll"}
  /\ rbSteps' = rbSteps + 1
  /\ CommitRoot(Rbo)
  /\ UNCHANGED <<rbKind, rbSeen, rbLive>>

\* disconnect(): the ResizeObserver is disconnected and the listeners are
\* removed by the abort of their signal
RootDisconnect ==
  /\ rbSteps < MaxRootSteps
  /\ rbLive
  /\ rbLive' = FALSE
  /\ rbSteps' = rbSteps + 1
  /\ CommitRoot(Rbo)
  /\ UNCHANGED <<rbKind, rbRect, rbSeen, rbEvents>>

\* the host reports the size of an element root that differs from the last
\* report
HostRootResize ==
  /\ rbKind = "element"
  /\ rbLive
  /\ SizeOf(rbRect) # rbSeen
  /\ rbSeen' = SizeOf(rbRect)
  /\ CommitRoot(RBO_onRootResize(Rbo, <<[borderBoxSize |-> SizeOf(rbRect)]>>))
  /\ UNCHANGED <<rbKind, rbRect, rbEvents, rbLive, rbSteps>>

\* the host dispatches the resize event of the window
HostResizeEvent ==
  /\ "resize" \in rbEvents
  /\ rbEvents' = rbEvents \ {"resize"}
  /\ CommitRoot(IF rbLive THEN RBO_handleResize(Rbo) ELSE Rbo)
  /\ UNCHANGED <<rbKind, rbRect, rbSeen, rbLive, rbSteps>>

\* the host dispatches the scroll event
HostScrollEvent ==
  /\ "scroll" \in rbEvents
  /\ rbEvents' = rbEvents \ {"scroll"}
  /\ CommitRoot(IF rbLive THEN RBO_onScroll(Rbo) ELSE Rbo)
  /\ UNCHANGED <<rbKind, rbRect, rbSeen, rbLive, rbSteps>>

\* after the constructor, for either kind of root
InitRoot ==
  /\ EngineInit
  /\ box = [e \in Elems |-> BoxHome]
  /\ RectIdle
  /\ PairIdle
  /\ rbKind \in {"element", "window"}
  /\ \E size \in RootSizes : rbRect = Rect(0, 0, size.width, size.height)
  /\ rbBounds = rbRect
  /\ rbSeen = ZeroSize
  /\ rbEvents = {}
  /\ rbLive = TRUE
  /\ rbLog = <<>>
  /\ rbSteps = 0

NextRoot ==
  \/ RootResize
  \/ RootScroll
  \/ RootDisconnect
  \/ HostRootResize
  \/ HostResizeEvent
  \/ HostScrollEvent

SpecRoot == InitRoot /\ [][NextRoot]_vars

\* ------------------------------------------------------------------------
\* utilities/Rect.ts on its own: the clipping round trip on drawn rects
\* ------------------------------------------------------------------------

MaxCoord == 2

\* the rects with a corner and a size of at most MaxCoord units
GridRects ==
  {Rect(x, y, w, h) : x \in 0..MaxCoord, y \in 0..MaxCoord,
                      w \in 0..MaxCoord, h \in 0..MaxCoord}

\* rect a lies within rect b
Contained(a, b) ==
  /\ left(b) <= left(a) /\ right(a) <= right(b)
  /\ top(b) <= top(a) /\ bottom(a) <= bottom(b)

\* Rect.clip(outer, Rect.clipOffsets(outer, inner)) is evaluated
ClipRoundTrip ==
  /\ clipped = None
  /\ clipped' = clip(outer, clipOffsets(outer, inner))
  /\ UNCHANGED <<outer, inner, engineVars, rootVars, pairVars>>

\* any rect and any rect within it
InitRect ==
  /\ EngineInit
  /\ box = [e \in Elems |-> BoxHome]
  /\ RootIdle
  /\ PairIdle
  /\ outer \in GridRects
  /\ inner \in {r \in GridRects : Contained(r, outer)}
  /\ clipped = None

NextRect == ClipRoundTrip

SpecRect == InitRect /\ [][NextRect]_vars

\* ------------------------------------------------------------------------
\* utilities on their own: Rect.intersect and rootMargin on drawn rects
\* with whole-pixel coordinates
\* ------------------------------------------------------------------------

MaxOrigin == 2
MaxSpan == 4

\* the first rect: a corner of at most MaxOrigin px and a size of at most
\* MaxSpan px, which is more than MIN_SIZE
FirstRects ==
  {Px(x, y, w, h) : x \in 0..MaxOrigin, y \in 0..MaxOrigin,
                    w \in 0..MaxSpan, h \in 0..MaxSpan}

\* the second rect: a corner at 0 or 1 px; each side is 1 px long or long
\* enough to hold every first rect
SecondRects ==
  {Px(x, y, w, h) : x \in 0..1, y \in 0..1,
                    w \in {1, MaxOrigin + MaxSpan + 1},
                    h \in {1, MaxOrigin + MaxSpan + 1}}

\* Rect.intersect is evaluated on the pair, both ways round
Intersect ==
  /\ computed = None
  /\ computed' = [op |-> "intersect", ab |-> intersect(rectA, rectB),
                  ba |-> intersect(rectB, rectA)]
  /\ UNCHANGED <<rectA, rectB, engineVars, rootVars, rectVars>>

\* rootMargin is evaluated for the first rect within the second
Margin ==
  /\ computed = None
  /\ computed' = [op |-> "rootMargin", margins |-> rootMargin(rectA, rectB)]
  /\ UNCHANGED <<rectA, rectB, engineVars, rootVars, rectVars>>

\* any two of the rects
InitPair ==
  /\ EngineInit
  /\ box = [e \in Elems |-> BoxHome]
  /\ RootIdle
  /\ RectIdle
  /\ rectA \in FirstRects
  /\ rectB \in SecondRects
  /\ computed = None

NextPair ==
  \/ Intersect
  \/ Margin

SpecPair == InitPair /\ [][NextPair]_vars

\* ------------------------------------------------------------------------
\* Properties
\* ------------------------------------------------------------------------

ObserveOp(e) == [op |-> "observe", e |-> e]
UnobserveOp(e) == [op |-> "unobserve", e |-> e]
MoveOp(e, b) == [op |-> "move", e |-> e, to |-> b]

\* the element's box has a part of positive area inside the viewport
Visible(e) ==
  LET i == intersect(box[e], view) IN i.width > 0 /\ i.height > 0

\* all entries given to the callback so far, in order
RECURSIVE Flatten(_)
Flatten(batches) ==
  IF batches = <<>> THEN <<>> ELSE Head(batches) \o Flatten(Tail(batches))

EntriesOf(e) == For(e, Flatten(calls))

\* the operations of the settled run so far are exactly ops
Ran(ops) ==
  /\ Len(hist) = Len(ops)
  /\ \A i \in 1..Len(ops) : hist[i].o = ops[i]

\* C1: on a fresh observer, observe(e) of an element that intersects the
\* root and does not change afterwards invokes the callback at most once,
\* and once the host has nothing more to deliver exactly once, with one
\* entry: target e, isIntersecting true, boundingClientRect the box of e.
SingleInitialReport ==
  \A e \in Elems :
    (Ran(<<ObserveOp(e)>>) /\ Visible(e)) =>
      /\ Len(calls) <= 1
      /\ Quiescent =>
           /\ Len(calls) = 1
           /\ Len(calls[1]) = 1
           /\ calls[1][1].target = e
           /\ calls[1][1].isIntersecting
           /\ calls[1][1].boundingClientRect = box[e]

SingleInitialReportWitness ==
  \E e \in Elems :
    /\ Ran(<<ObserveOp(e)>>)
    /\ Visible(e)
    /\ Quiescent
    /\ Len(calls) = 1

\* C2: once disconnect() has been called, and until observe() is called
\* again, no step invokes the callback.
DisconnectSilences == [][silent => calls' = calls]_vars

\* C3: after unobserve(e), and until observe(e) is called again, no step
\* gives the callback an entry whose target is e.
UnobserveSilences ==
  [][\A e \in unobserved : EntriesOf(e)' = EntriesOf(e)]_vars

\* the k-th operation of the settled run acts on an element that is
\* registered with the engine: observed before, with no unobserve of it
\* and no disconnect since
Registered(e, k) ==
  \E i \in 1..(k - 1) :
    /\ hist[i].o = ObserveOp(e)
    /\ \A j \in (i + 1)..(k - 1) :
         hist[j].o # UnobserveOp(e) /\ hist[j].o.op # "disconnect"

\* the callback was given an entry for e after the k-th operation
ReportedSince(e, k) ==
  \E i \in (hist[k].at + 1)..Len(calls) :
    \E j \in 1..Len(calls[i]) : calls[i][j].target = e

\* the settled run ends with unobserve(e), observe(e) of an observed element
Reobserved(e) ==
  LET n == Len(hist)
  IN  /\ n >= 3
      /\ hist[n].o = ObserveOp(e)
      /\ hist[n - 1].o = UnobserveOp(e)
      /\ Registered(e, n - 1)

\* C4: when an observed element e is unobserved and observed again, e being
\* visible, then once the host has delivered everything the callback has
\* been given an entry for e after the second observe(e).
ReobserveReports ==
  \A e \in Elems :
    (Reobserved(e) /\ Visible(e) /\ Quiescent) =>
      ReportedSince(e, Len(hist))

ReobserveReportsWitness ==
  \E e \in Elems :
    /\ Ran(<<ObserveOp(e), UnobserveOp(e), ObserveOp(e)>>)
    /\ Visible(e)
    /\ Quiescent
    /\ Len(calls) = 2
    /\ calls[1][1].boundingClientRect = calls[2][1].boundingClientRect

\* C5: of the entries given to the callback for an element since it was
\* last unobserved, no two consecutive ones are equal under isEntryEqual's
\* rule (target, isIntersecting, boundingClientRect and intersectionRect
\* on x, y, width, height).
NoEqualConsecutiveEntries ==
  \A e \in Elems :
    \A i \in 1..(Len(since[e]) - 1) :
      ~(/\ since[e][i + 1].target = since[e][i].target
        /\ since[e][i + 1].isIntersecting = since[e][i].isIntersecting
        /\ \A f \in {"x", "y", "width", "height"} :
             /\ since[e][i + 1].boundingClientRect[f]
                  = since[e][i].boundingClientRect[f]
             /\ since[e][i + 1].intersectionRect[f]
                  = since[e][i].intersectionRect[f])

\* an identical snapshot was delivered again and stopped by the gate, and
\* a different one was let through
NoEqualConsecutiveEntriesWitness ==
  \E e \in Elems : gated /\ Len(since[e]) >= 2

\* C6: every invocation of the callback carries at least one entry.
NeverEmptyBatch == \A i \in 1..Len(calls) : Len(calls[i]) > 0

\* a batch was emptied by the gate, and the callback has been invoked
NeverEmptyBatchWitness == gated /\ Len(calls) >= 1

\* C7: as long as observe() has not been called, the callback has not been
\* invoked.
NoCallbackBeforeObserve == ~everObserved => calls = <<>>

\* a root-bounds change was processed on an observer that observes nothing
NoCallbackBeforeObserveWitness ==
  ~everObserved /\ rootBounds # ViewBig /\ rbConnected /\ ~resizePending

\* the isIntersecting values of a sequence of entries
Flags3(es) == [i \in 1..Len(es) |-> es[i].isIntersecting]

\* the settled run observed e while visible, moved it out of the root and
\* moved it back in
RoundTrip(e) ==
  \E b \in Boxes \ OutBoxes :
    Ran(<<ObserveOp(e), MoveOp(e, BoxOut), MoveOp(e, b)>>)

\* C8: for an observed element that starts visible, is moved entirely out
\* of the root and is then moved back in, once the host has delivered
\* everything exactly three entries have been delivered for it, with
\* isIntersecting true, false, true in that order.
VisibilityRoundTrip ==
  \A e \in Elems :
    RoundTrip(e) =>
      /\ Len(EntriesOf(e)) <= 3
      /\ Quiescent => Flags3(EntriesOf(e)) = <<TRUE, FALSE, TRUE>>

VisibilityRoundTripWitness ==
  \E e \in Elems :
    RoundTrip(e) /\ Quiescent /\ Len(EntriesOf(e)) = 3 /\ Len(calls) = 3

\* the settled run observed e while visible and moved it out of the root
MovedOut(e) == Ran(<<ObserveOp(e), MoveOp(e, BoxOut)>>)

\* C9: a move that takes a fine-tracked element entirely outside the root
\* yields exactly one further callback, whose one entry has isIntersecting
\* false; no entry with isIntersecting true (the only kind a fine tracker
\* emits) is delivered for the element's new box.
MoveOutReportsOnce ==
  \A e \in Elems :
    MovedOut(e) =>
      /\ Len(calls) <= 2
      /\ \A i \in 1..Len(calls) : \A j \in 1..Len(calls[i]) :
           calls[i][j].boundingClientRect = BoxOut
             => ~calls[i][j].isIntersecting
      /\ Quiescent =>
           /\ Len(calls) = 2
           /\ Len(calls[2]) = 1
           /\ calls[2][1].target = e
           /\ ~calls[2][1].isIntersecting

\* the entries queued for the move have been delivered to the
\* VisibilityObserver and to the fine tracker, and the tracker is gone
MoveOutReportsOnceWitness ==
  \E e \in Elems :
    /\ MovedOut(e)
    /\ Quiescent
    /\ Len(calls) = 2
    /\ ~calls[2][1].isIntersecting
    /\ positionObservers[e] = 0

\* the settled run observed e while visible at its home box and changed
\* its size
Resized(e) == Ran(<<ObserveOp(e), MoveOp(e, BoxWide)>>)

\* C10: after the initial report, one size change of an observed visible
\* element yields exactly one further callback, with exactly one entry,
\* which carries the new dimensions, in whichever order the host runs the
\* resize notification and the intersection notifications of that change.
ResizeReportsOnce ==
  \A e \in Elems :
    Resized(e) =>
      /\ Len(calls) <= 2
      /\ Quiescent =>
           /\ Len(calls) = 2
           /\ Len(calls[2]) = 1
           /\ calls[2][1].target = e
           /\ calls[2][1].boundingClientRect.width = BoxWide.width
           /\ calls[2][1].boundingClientRect.height = BoxWide.height
           /\ calls[2][1].boundingClientRect.width
                # calls[1][1].boundingClientRect.width

ResizeReportsOnceWitness ==
  \E e \in Elems : Resized(e) /\ Quiescent /\ Len(calls) = 2

\* the settled run observed e while visible at its home box and translated
\* it to a box that is inside the root as well
Translated(e) ==
  /\ Ran(<<ObserveOp(e), MoveOp(e, BoxMoved)>>)
  /\ hist[2].at = 1
  /\ calls[1][1].boundingClientRect = BoxHome

NewEntriesOf(e) ==
  IF Len(calls') > Len(calls) THEN For(e, calls'[Len(calls')]) ELSE <<>>

\* C12 as stated: when the root bounds change while an element is
\* fine-tracked, the callback is invoked once more with an entry for that
\* element whose rootBounds equals the new root bounds.
RootBoundsChangeAlwaysReports ==
  [][rootBounds' # rootBounds =>
       \A e \in Elems :
         positionObservers[e] # 0 =>
           /\ Len(calls') = Len(calls) + 1
           /\ Len(NewEntriesOf(e)) = 1
           /\ NewEntriesOf(e)[1].rootBounds = rootBounds']_vars

\* C12, amended: when the root bounds change while an element is
\* fine-tracked, the callback is invoked at most once; its batch has an
\* entry for the element whenever the element's measured bounding rect
\* differs from the one of its last accepted entry (or it has none), that
\* entry carries the measured rect, and every entry of the batch has the
\* new root bounds as rootBounds and differs from the element's last
\* accepted entry under the entry equality (which ignores rootBounds).
RootBoundsChangeReports ==
  [][rootBounds' # rootBounds =>
       /\ Len(calls') <= Len(calls) + 1
       /\ \A e \in Elems :
            /\ \A i \in 1..Len(NewEntriesOf(e)) :
                 /\ NewEntriesOf(e)[i].rootBounds = rootBounds'
                 /\ NewEntriesOf(e)[i].boundingClientRect = box[e]
                 /\ positionObservers[e] # 0
                 /\ ~isEntryEqual(NewEntriesOf(e)[i], positions[e])
            /\ Len(NewEntriesOf(e)) <= 1
            /\ (/\ positionObservers[e] # 0
                /\ \/ positions[e] = None
                   \/ ~equals(positions[e].boundingClientRect, box[e]))
                 => Len(NewEntriesOf(e)) = 1]_vars

\* the root-bounds reaction reported a moved element before the entries the
\* host queued for the move were delivered
RootBoundsChangeReportsWitness ==
  /\ Len(calls) = 2
  /\ rootBounds # ViewBig
  /\ calls[2][1].rootBounds = rootBounds
  /\ calls[1][1].rootBounds # rootBounds
  /\ calls[2][1].boundingClientRect # calls[1][1].boundingClientRect
  /\ visPending = <<>>
  /\ \E id \in DOMAIN pio : ~pio[id].live /\ pio[id].pending # <<>>

\* the fine trackers of element e whose host subscription is live
LiveTrackers(e) == {id \in DOMAIN pio : pio[id].elem = e /\ pio[id].live}

\* C13: in every reachable state at most one live fine tracker
\* subscription exists per element, and it belongs to the tracker the
\* engine holds for the element: a tracker that was replaced or discarded
\* has no live subscription.
OneLiveTrackerPerElement ==
  \A e \in Elems :
    /\ Cardinality(LiveTrackers(e)) <= 1
    /\ \A id \in LiveTrackers(e) : positionObservers[e] = id

\* the targets of a sequence of entries
Targets(es) == [i \in 1..Len(es) |-> es[i].target]

\* a is b with some of its members left out
RECURSIVE IsSubseq(_, _)
IsSubseq(a, b) ==
  IF a = <<>> THEN TRUE
  ELSE IF b = <<>> THEN FALSE
  ELSE IF Head(a) = Head(b) THEN IsSubseq(Tail(a), Tail(b))
  ELSE IsSubseq(a, Tail(b))

RECURSIVE SumPending(_)
SumPending(ids) ==
  IF ids = {} THEN 0
  ELSE LET id == CHOOSE i \in ids : TRUE
       IN  Len(pio[id].pending) + SumPending(ids \ {id})

\* the number of batches the host has queued for the engine's intersection
\* callbacks
Queued == Len(visPending) + SumPending(DOMAIN pio)

\* the step delivers one size batch
SizeBatchStep == Queued' = Queued /\ nops' = nops /\ roLast' # roLast

\* every element of the batch is reported for the first time
AllInitial(batch) ==
  /\ \A i \in 1..Len(batch) :
       /\ positions[batch[i].target] = None
       /\ intersections[batch[i].target] = None
  /\ \A i, j \in 1..Len(batch) : batch[i].target = batch[j].target => i = j

\* C14: each reaction step invokes the callback at most once (a step that
\* delivers the queued intersection batches invokes it at most once per
\* batch, every other step at most once); the entries delivered for a
\* visibility or size batch are in the order of their elements in that
\* batch; a visibility batch that reports several elements for the first
\* time gives one invocation with one entry per element.
OneCallbackPerBatch ==
  [][/\ Len(calls') - Len(calls) <= (IF Queued' < Queued THEN Queued ELSE 1)
     /\ \A i \in 1..Len(visPending) :
          LET M == VO_callback(Mem, visPending[i])
              n == Len(M.calls)
          IN  /\ n <= Len(calls) + 1
              /\ n > Len(calls) =>
                   IsSubseq(Targets(M.calls[n]), Targets(visPending[i]))
              /\ AllInitial(visPending[i]) =>
                   /\ n = Len(calls) + 1
                   /\ Targets(M.calls[n]) = Targets(visPending[i])
     /\ \A id \in DOMAIN pio : \A i \in 1..Len(pio[id].pending) :
          Len(onIntersection(Mem, id, pio[id].pending[i]).calls)
            <= Len(calls) + 1
     /\ (SizeBatchStep /\ Len(calls') > Len(calls)) =>
          IsSubseq(Targets(calls'[Len(calls')]), RoActive)]_vars

\* two elements observed in the order e2, e1 had their initial reports in
\* one invocation, in the order of the visibility batch
OneCallbackPerBatchWitness ==
  /\ Len(calls) = 1
  /\ Targets(calls[1]) = <<"e2", "e1">>
  /\ visPending = <<>>

\* C15: observe, unobserve and disconnect (like every operation of the
\* caller or of the layout) do not invoke the callback while they run and
\* hand nothing to the engine's handlers: the callback's history, the
\* queued batches and the visibility snapshots of other elements are as
\* before, and an element that observe() registers has not been evaluated
\* yet when observe() returns.
OperationsAreSilent ==
  [][nops' # nops =>
       /\ calls' = calls
       /\ visPending' = visPending
       /\ Queued' <= Queued
       /\ \A e \in Elems :
            /\ intersections'[e] \in {intersections[e], None}
            /\ positions'[e] \in {positions[e], None}
            /\ (~InSeq(visTargets, e) /\ InSeq(visTargets', e)) =>
                 /\ visReg'[e] = InitialReg
                 /\ intersections'[e] = intersections[e]]_vars

\* observe(e) has returned for a visible element, and the host has yet to
\* evaluate it
OperationsAreSilentWitness ==
  \E e \in Elems :
    /\ InSeq(visTargets, e)
    /\ visReg[e] = InitialReg
    /\ Visible(e)
    /\ intersections[e] = None
    /\ calls = <<>>
    /\ visPending = <<>>

\* the last entry delivered for e since it was last unobserved says that
\* e does not intersect the root
ReportedOutside(e) ==
  /\ since[e] # <<>>
  /\ ~since[e][Len(since[e])].isIntersecting

\* the host has queued, for the VisibilityObserver, an entry that says e
\* intersects the root
VisibilityReportsInside(e) ==
  \E i \in 1..Len(visPending) : \E j \in 1..Len(visPending[i]) :
    /\ visPending[i][j].target = e
    /\ visPending[i][j].isIntersecting

\* C16: while an observed element is entirely outside the root and the
\* last entry delivered for it has isIntersecting false, a step delivers an
\* entry for it only if it hands the VisibilityObserver an entry that says
\* the element intersects the root, and the next entry delivered for it
\* has isIntersecting true: position changes outside the root are not
\* reported.
OutsideIsSilent ==
  [][\A e \in Elems :
       (/\ ReportedOutside(e)
        /\ ~Visible(e)
        /\ ~Visible(e)'
        /\ e \notin unobserved \cup unobserved'
        /\ ~silent) =>
         \/ since'[e] = since[e]
         \/ /\ VisibilityReportsInside(e)
            /\ Len(since'[e]) > Len(since[e])
            /\ since'[e][Len(since[e]) + 1].isIntersecting]_vars

\* an element reported as outside the root was moved to another place
\* outside the root, and the host has delivered everything
OutsideIsSilentWitness ==
  \E e \in Elems :
    /\ Ran(<<ObserveOp(e), MoveOp(e, BoxOutMoved)>>)
    /\ hist[2].at = 1
    /\ InSeq(visTargets, e)
    /\ Quiescent
    /\ ReportedOutside(e)
    /\ Len(calls) = 1
    /\ calls[1][1].boundingClientRect = BoxOut

DisconnectOp == [op |-> "disconnect"]

\* the program's own state and the state of its host subscriptions
Engine ==
  <<rootBounds, rbConnected, visLive, visTargets, visReg, visPending,
    visOpen, intersections, positionObservers, poKeys, positions,
    roTargets, roLast, pio>>

\* every subscription that disconnect() tears down is torn down
TornDown ==
  /\ ~rbConnected
  /\ ~visLive
  /\ visTargets = <<>>
  /\ visReg = [e \in Elems |-> None]
  /\ ~visOpen
  /\ positionObservers = [e \in Elems |-> 0]
  /\ poKeys = <<>>
  /\ roTargets = <<>>
  /\ roLast = [e \in Elems |-> ZeroSize]

\* C17: disconnect() always ends in a torn-down state, and a disconnect()
\* that starts in a torn-down state (such as a second disconnect() in a
\* row) changes nothing of the engine or of its host subscriptions; the
\* disconnect of a fine tracker applied twice gives what it gives applied
\* once.
DisconnectIdempotent ==
  [][/\ (Len(hist') > Len(hist) /\ hist'[Len(hist')].o = DisconnectOp) =>
          /\ TornDown'
          /\ TornDown => UNCHANGED Engine
     /\ \A id \in DOMAIN pio :
          PIO_disconnect(PIO_disconnect(Mem, id), id)
            = PIO_disconnect(Mem, id)]_vars

\* disconnect() was called twice in a row after an element was reported
DisconnectIdempotentWitness ==
  \E e \in Elems :
    /\ Ran(<<ObserveOp(e), DisconnectOp, DisconnectOp>>)
    /\ Len(calls) = 1
    /\ TornDown
    /\ hist[3].at = 1

\* the step is the operation o of a settled run
Does(o) == Len(hist') > Len(hist) /\ hist'[Len(hist')].o = o

\* C18: when unobserve(e) returns, e has no fine tracker record in the
\* engine, no size subscription, no last accepted entry, and is not
\* registered with the VisibilityObserver.
UnobserveForgets ==
  [][\A e \in Elems :
       Does(UnobserveOp(e)) =>
         /\ positionObservers'[e] = 0
         /\ ~InSeq(poKeys', e)
         /\ ~InSeq(roTargets', e)
         /\ positions'[e] = None
         /\ ~InSeq(visTargets', e)]_vars

\* C19: when disconnect() returns, the engine holds no fine tracker record
\* and no last accepted entry for any element, and the VisibilityObserver
\* holds no host observer and no intersection snapshot for any element.
DisconnectForgets ==
  [][Does(DisconnectOp) =>
       /\ ~visLive'
       /\ \A e \in Elems :
            /\ positionObservers'[e] = 0
            /\ positions'[e] = None
            /\ intersections'[e] = None]_vars

\* the last entry the host has queued for the VisibilityObserver about e
\* says that e does not intersect the root
RECURSIVE LastFor(_, _)
LastFor(e, es) ==
  IF es = <<>> THEN None
  ELSE IF es[Len(es)].target = e THEN es[Len(es)]
  ELSE LastFor(e, SubSeq(es, 1, Len(es) - 1))

VisibilityReportsOutsideLast(e) ==
  LET last == LastFor(e, Flatten(visPending))
  IN  last # None /\ ~last.isIntersecting

\* C20: for an observed element whose visibility the engine knows, a fine
\* tracker record exists only if the most recent visibility result for it
\* was intersecting.  observe() creates no tracker record and no size
\* subscription; a record is created for an element that has none only by
\* a step that delivers an intersecting visibility result for it; a step
\* that delivers the queued visibility results, the last of them for e
\* being non-intersecting, leaves e without record and without size
\* subscription.
TrackedOnlyIfIntersecting ==
  [][\A e \in Elems :
       /\ (InSeq(visTargets, e) /\ positionObservers[e] # 0
             /\ intersections[e] # None)
            => intersections[e].isIntersecting
       /\ (nops' # nops /\ visTargets' # visTargets /\ InSeq(visTargets', e))
            => /\ positionObservers' = positionObservers
               /\ roTargets' = roTargets
       /\ (positionObservers[e] = 0 /\ positionObservers'[e] # 0)
            => VisibilityReportsInside(e) /\ visPending' = <<>>
       /\ (VisibilityReportsOutsideLast(e) /\ visPending' = <<>>)
            => positionObservers'[e] = 0 /\ ~InSeq(roTargets', e)]_vars

\* an element was tracked, then reported as not intersecting, and has
\* neither record nor size subscription; another one is tracked
TrackedOnlyIfIntersectingWitness ==
  \E e \in Elems :
    /\ InSeq(visTargets, e)
    /\ Len(since[e]) >= 2
    /\ since[e][1].isIntersecting
    /\ intersections[e] # None
    /\ ~intersections[e].isIntersecting
    /\ positionObservers[e] = 0
    /\ ~InSeq(roTargets, e)

\* the snapshot cached for the target of the i-th entry of a batch when the
\* entry is reached: the previous entry of the batch for that target, or
\* the snapshot cached before the batch
CachedBefore(batch, i) ==
  LET js == {j \in 1..(i - 1) : batch[j].target = batch[i].target}
  IN  IF js = {} THEN intersections[batch[i].target]
      ELSE batch[CHOOSE j \in js : \A k \in js : k <= j]

\* the i-th entry of the batch differs from the cached snapshot
ChangedAt(batch, i) ==
  LET cached == CachedBefore(batch, i)
  IN  \/ cached = None
      \/ cached.isIntersecting # batch[i].isIntersecting
      \/ \E f \in {"x", "y", "width", "height"} :
           cached.intersectionRect[f] # batch[i].intersectionRect[f]

\* the entries of the batch that differ, in batch order
RECURSIVE ChangedUpTo(_, _)
ChangedUpTo(batch, n) ==
  IF n = 0 THEN <<>>
  ELSE IF ChangedAt(batch, n)
       THEN Append(ChangedUpTo(batch, n - 1), batch[n])
       ELSE ChangedUpTo(batch, n - 1)

\* C21: for every batch the host has queued for the VisibilityObserver,
\* its callback forwards exactly the entries whose isIntersecting or
\* intersectionRect differs from the cached snapshot of their element (or
\* whose element has none), in batch order; it caches every entry of the
\* batch; and when no entry differs it does nothing else: the engine's
\* handler is not run and the caller's callback is not invoked.
VisibilityFilter ==
  \A i \in 1..Len(visPending) :
    LET batch == visPending[i]
        r == VO_callbackLoop(intersections, batch, <<>>)
        expected == ChangedUpTo(batch, Len(batch))
    IN  /\ r.changedEntries = expected
        /\ \A e \in Elems :
             r.ints[e] = (IF LastFor(e, batch) # None THEN LastFor(e, batch)
                          ELSE intersections[e])
        /\ expected = <<>> =>
             VO_callback(Mem, batch) = [Mem EXCEPT !.ints = r.ints]
        /\ expected # <<>> =>
             VO_callback(Mem, batch)
               = onVisibilityChange([Mem EXCEPT !.ints = r.ints], expected)

\* the host has queued a batch with an entry that equals the cached
\* snapshot of its element in isIntersecting and intersectionRect, and an
\* entry that differs from it
VisibilityFilterWitness ==
  \E i \in 1..Len(visPending) : \E j, k \in 1..Len(visPending[i]) :
    /\ ~ChangedAt(visPending[i], j)
    /\ ChangedAt(visPending[i], k)

\* C22: when unobserve(e) returns, the VisibilityObserver holds no
\* intersection snapshot for e, whatever was called before.
UnobserveDropsSnapshot ==
  [][\A e \in Elems :
       Does(UnobserveOp(e)) => intersections'[e] = None]_vars

\* the step is the host's first evaluation of the current subscription of
\* tracker id, and queues its first notification
FirstNotificationQueued(id) ==
  /\ id \in DOMAIN pio
  /\ id \in DOMAIN pio'
  /\ pio[id].live
  /\ pio[id].reg = InitialReg
  /\ pio'[id].reg # InitialReg
  /\ pio'[id].pending # <<>>

\* C23: the first notification of any subscription of a fine tracker (the
\* initial one and every re-subscription), when its bounding rect equals
\* the tracker's current one, emits no change entry and does not
\* re-subscribe: the engine's gate is not reached and the registration of
\* the subscription is kept.
FirstNotificationIsQuiet ==
  [][\A id \in DOMAIN pio :
       FirstNotificationQueued(id) =>
         LET p == pio'[id]
             entry == p.pending[Len(p.pending)]
             R == onIntersection(Mem', id, entry)
         IN  equals(entry.boundingClientRect, p.clientRect) =>
               /\ R.calls = calls'
               /\ R.gated = gated'
               /\ R.pos = positions'
               /\ R.pio[id].reg = p.reg
               /\ R.pio[id].margins = p.margins]_vars

\* the bounding rect of the entry has no part of positive area inside the
\* root bounds tracker id was created with
OutsideRootBounds(id, entry) ==
  LET i == intersect(entry.boundingClientRect, pio[id].rootBounds)
  IN  ~(i.width > 0 /\ i.height > 0)

\* C24: a notification of a fine tracker whose bounding rect has an empty
\* intersection with the root bounds is suppressed entirely: nothing
\* reaches the engine's gate, the tracker does not re-subscribe, and its
\* last observed ratio, its bounding rect and the visibleRect and
\* isIntersecting derived from it are as before.
OutsideNotificationIsSuppressed ==
  \A id \in DOMAIN pio : \A k \in 1..Len(pio[id].pending) :
    LET entry == pio[id].pending[k]
        R == onIntersection(Mem, id, entry)
    IN  OutsideRootBounds(id, entry) =>
          /\ R.calls = calls
          /\ R.gated = gated
          /\ R.pos = positions
          /\ R.pio[id].reg = pio[id].reg
          /\ R.pio[id].margins = pio[id].margins
          /\ R.pio[id].previousIntersectionRatio
               = pio[id].previousIntersectionRatio
          /\ R.pio[id].clientRect = pio[id].clientRect
          /\ visibleRect(R, R.pio[id]) = visibleRect(Mem, pio[id])
          /\ isIntersecting(R, R.pio[id]) = isIntersecting(Mem, pio[id])

\* every tracker whose host subscription is live was created with the
\* bounds the root bounds tracker has now
LiveTrackersShareRootBounds ==
  \A id \in DOMAIN pio : pio[id].live => pio[id].rootBounds = rootBounds

\* the root bounds tracker accepts a new rect
RootBoundsChangeStep == HostViewportResize /\ rootBounds' # rootBounds

\* a root-bounds change replaces the tracker of exactly the elements that
\* have one by a tracker made with the new bounds and a fresh measurement
RootBoundsChangeReplaces ==
  \A e \in Elems :
    IF positionObservers[e] = 0 THEN positionObservers'[e] = 0
    ELSE /\ positionObservers'[e] \notin {0, positionObservers[e]}
         /\ positionObservers[e] \in DOMAIN pio' =>
              ~pio'[positionObservers[e]].live
         /\ LET p == pio'[positionObservers'[e]]
            IN  /\ p.elem = e
                /\ p.live
                /\ p.rootBounds = rootBounds'
                /\ p.clientRect = box[e]
                /\ p.previousIntersectionRatio = None

\* C25: in every reachable state the root bounds held by each live fine
\* tracker are the root bounds tracker's current bounds; a root-bounds
\* change replaces the tracker of every element that has one, and of no
\* other element, by a tracker made with the new bounds and a fresh
\* measurement.
TrackersFollowRootBounds ==
  [][/\ LiveTrackersShareRootBounds'
     /\ RootBoundsChangeStep => RootBoundsChangeReplaces]_vars

\* the sizes within one unit of the size of rect
NearSizes(rect) ==
  {Size(w, h) : w \in {rect.width - 1, rect.width, rect.width + 1},
                h \in {rect.height - 1, rect.height, rect.height + 1}}

\* a size report for element t with this border-box size is one the
\* engine skips
SameRoundedSize(t, size) ==
  /\ positions[t] # None
  /\ sizeEqual(positions[t].boundingClientRect, size)

\* the size the host reports for t now
ReportedSize(t) == Size(box[t].width, box[t].height)

\* C26: a size notification for an element whose rounded border-box width
\* and height are the rounded width and height of the boundingClientRect
\* of its last accepted entry changes nothing: the element is not measured
\* again, its fine tracker is not replaced and the callback is not invoked
\* for it; a batch of such notifications alone leaves the engine as it was.
SameSizeReportIsIgnored ==
  [][/\ \A t \in Elems : \A size \in NearSizes(box[t]) :
          SameRoundedSize(t, size) =>
            onResize(Mem, <<[target |-> t, borderBoxSize |-> size]>>) = Mem
     /\ HostResize =>
          /\ \A i \in 1..Len(RoActive) :
               LET t == RoActive[i]
               IN  SameRoundedSize(t, ReportedSize(t)) =>
                     /\ positionObservers'[t] = positionObservers[t]
                     /\ positions'[t] = positions[t]
                     /\ positionObservers[t] # 0 =>
                          pio'[positionObservers[t]] = pio[positionObservers[t]]
                     /\ Len(calls') > Len(calls) =>
                          ~InSeq(Targets(calls'[Len(calls')]), t)
          /\ (\A i \in 1..Len(RoActive) :
                SameRoundedSize(RoActive[i], ReportedSize(RoActive[i]))) =>
               /\ calls' = calls
               /\ positions' = positions
               /\ positionObservers' = positionObservers
               /\ pio' = pio]_vars

\* the visibility tracker reported e1 first (the only call so far says it
\* intersects) and the size notifier's first report for e1, of the size
\* already accepted, has been handled
SameSizeReportIsIgnoredWitness ==
  /\ Len(calls) = 1
  /\ calls[1][1].target = "e1"
  /\ calls[1][1].isIntersecting
  /\ InSeq(roTargets, "e1")
  /\ roLast["e1"] = ReportedSize("e1")
  /\ SameRoundedSize("e1", ReportedSize("e1"))
  /\ positionObservers["e1"] # 0

\* the entries the step gives to the callback, in order
Delivered == Flatten(SubSeq(calls', Len(calls) + 1, Len(calls')))

\* C27: for every element the last accepted entry held by the gate is
\* absent or is the most recent entry given to the callback for that
\* element; it is written only by a step that delivers that entry, and
\* removed only by unobserve of that element.
GateHoldsLastDelivered ==
  [][\A e \in Elems :
       /\ positions'[e] # None => positions'[e] = LastFor(e, Flatten(calls'))
       /\ positions'[e] # positions[e] =>
            IF positions'[e] = None
            THEN Do(UnobserveOp(e))
            ELSE positions'[e] = LastFor(e, Delivered)
       /\ For(e, Delivered) # <<>> => positions'[e] = LastFor(e, Delivered)]_vars

\* e1 was reported and forgotten by unobserve; it has not been observed
\* since, was reported once more with a different rect, and the gate holds
\* that entry
GateHoldsLastDeliveredWitness ==
  /\ Len(EntriesOf("e1")) = 2
  /\ "e1" \in unobserved
  /\ positions["e1"] = EntriesOf("e1")[2]
  /\ positions["e1"] # EntriesOf("e1")[1]

\* the step stores the rect of the root and hands it to the callback once
RootNotifies ==
  /\ rbBounds' = (IF rbKind = "window" THEN RBO_getWindowRect ELSE rbRect)
  /\ rbLog' = Append(rbLog, [rect |-> rbBounds', rootBounds |-> rbBounds'])

\* the step leaves the stored bounds alone and the callback is not invoked
RootKeeps == rbBounds' = rbBounds /\ rbLog' = rbLog

\* C28: a resize signal makes the root bounds tracker store the new bounds
\* and notify if and only if the size changed: for an element root when
\* the rounded size differs from the rounded size of the stored bounds, for
\* the window when the measured rect is not exactly the stored one; at
\* every notification the tracker's rootBounds are the bounds passed to the
\* callback.
RootResizeNotifiesOnChange ==
  [][/\ HostRootResize =>
          IF round(rbRect.width) # round(rbBounds.width)
             \/ round(rbRect.height) # round(rbBounds.height)
          THEN RootNotifies ELSE RootKeeps
     /\ (HostResizeEvent /\ rbLive) =>
          IF RBO_getWindowRect # rbBounds THEN RootNotifies ELSE RootKeeps
     /\ \A i \in 1..Len(rbLog') : rbLog'[i].rootBounds = rbLog'[i].rect]_vars

\* an element root was reported 14px wide, which was stored and notified,
\* and then a fraction of a pixel narrower, which was not
RootResizeNotifiesOnChangeWitness ==
  /\ rbKind = "element"
  /\ Len(rbLog) = 1
  /\ SizeOf(rbLog[1].rect) = Size(14 * U, 12 * U)
  /\ rbBounds = rbLog[1].rect
  /\ rbSeen = Size(14 * U - 1, 12 * U)

\* C29: when the visibility tracker holds no snapshot for an element, the
\* element's fine tracker reports a visibleRect that is its full bounding
\* rect, unclipped, and isIntersecting is defined: every tracker of such
\* an element does so, and an entry a tracker of such an element gives to
\* the callback has the bounding rect as its intersectionRect.
NoSnapshotNoClip ==
  [][/\ \A id \in DOMAIN pio :
          intersections[pio[id].elem] = None =>
            /\ visibleRect(Mem, pio[id]) = pio[id].clientRect
            /\ isIntersecting(Mem, pio[id]) \in BOOLEAN
            /\ \A k \in 1..Len(pio[id].pending) :
                 LET entry == pio[id].pending[k]
                     R == onIntersection(Mem, id, entry)
                 IN  Len(R.calls) > Len(calls) =>
                       R.calls[Len(R.calls)][1].intersectionRect
                         = entry.boundingClientRect
     /\ \A e \in Elems :
          (intersections[e] = None /\ intersections'[e] = None) =>
            \A i \in 1..Len(Delivered) :
              Delivered[i].target = e =>
                Delivered[i].intersectionRect
                  = Delivered[i].boundingClientRect]_vars

\* e1 has no snapshot, and the last entry given to the callback is one its
\* tracker made for a rect other than the one first reported
NoSnapshotNoClipWitness ==
  /\ intersections["e1"] = None
  /\ positionObservers["e1"] # 0
  /\ Len(calls) = 2
  /\ calls[2][1].target = "e1"
  /\ calls[2][1].boundingClientRect # calls[1][1].boundingClientRect
  /\ calls[2][1].intersectionRect = calls[2][1].boundingClientRect
  /\ calls[1][1].intersectionRect # calls[1][1].boundingClientRect

\* C30: for all rects outer and inner with inner contained in outer,
\* clip(outer, clipOffsets(outer, inner)) is equal to inner under equals:
\* it has inner's x, y, width and height, and inner's top, left, right and
\* bottom.
ClipRestoresInner ==
  clipped # None =>
    /\ equals(clipped, inner)
    /\ clipped.top = top(inner)
    /\ clipped.left = left(inner)
    /\ clipped.right = right(inner)
    /\ clipped.bottom = bottom(inner)

\* the positions along an axis that the drawn rects can cover, in units
Cells == 0..((MaxOrigin + MaxSpan + 2) * U)

\* the horizontal extents of a and b have a unit of length in common
ShareX(a, b) ==
  \E k \in Cells : /\ left(a) <= k /\ k + 1 <= right(a)
                   /\ left(b) <= k /\ k + 1 <= right(b)

\* the vertical extents of a and b have a unit of length in common
ShareY(a, b) ==
  \E k \in Cells : /\ top(a) <= k /\ k + 1 <= bottom(a)
                   /\ top(b) <= k /\ k + 1 <= bottom(b)

\* C31: for all rects a and b, intersect(a, b) has a width and a height
\* that are not negative, a left and a top that are the greater of the
\* lefts and of the tops of a and b, a width (height) of zero exactly when
\* a and b do not overlap horizontally (vertically), and is equal to
\* intersect(b, a).
IntersectIsOverlap ==
  (computed # None /\ computed.op = "intersect") =>
    LET i == computed.ab
    IN  /\ i.width >= 0
        /\ i.height >= 0
        /\ left(i) >= left(rectA) /\ left(i) >= left(rectB)
        /\ left(i) \in {left(rectA), left(rectB)}
        /\ top(i) >= top(rectA) /\ top(i) >= top(rectB)
        /\ top(i) \in {top(rectA), top(rectB)}
        /\ (i.width = 0) <=> ~ShareX(rectA, rectB)
        /\ (i.height = 0) <=> ~ShareY(rectA, rectB)
        /\ ShareX(rectA, rectB) => right(i) \in {right(rectA), right(rectB)}
        /\ ShareY(rectA, rectB) => bottom(i) \in {bottom(rectA), bottom(rectB)}
        /\ equals(computed.ab, computed.ba)

\* intersect was applied to rects of which the first ends to the left of
\* the second, while they overlap vertically
IntersectIsOverlapWitness ==
  /\ computed # None
  /\ computed.op = "intersect"
  /\ right(rectA) < left(rectB)
  /\ ShareY(rectA, rectB)
  /\ computed.ab.width = 0
  /\ computed.ab.height > 0

\* the zone the host observes for a root with bounds rectB and the
\* computed margins
MarginZone == Zone(rectB, computed.margins)

\* C32: for every element rect with whole-pixel coordinates inside the
\* root bounds, the four margins describe a zone that is the rect shrunk
\* by one pixel on every side; along an axis on which the rect is shorter
\* than the minimum size the zone begins one pixel inside the rect and is
\* at least one pixel long, never zero or negative.
MarginZoneIsInset ==
  (computed # None /\ computed.op = "rootMargin" /\ Contained(rectA, rectB)) =>
    /\ left(MarginZone) = left(rectA) + U
    /\ top(MarginZone) = top(rectA) + U
    /\ IF rectA.width >= MIN_SIZE * U
       THEN right(MarginZone) = right(rectA) - U
       ELSE MarginZone.width >= U
    /\ IF rectA.height >= MIN_SIZE * U
       THEN bottom(MarginZone) = bottom(rectA) - U
       ELSE MarginZone.height >= U
    /\ MarginZone.width >= U
    /\ MarginZone.height >= U

\* the margins were computed for a rect inside the root bounds that is
\* narrower than the minimum size and as tall as the largest
MarginZoneIsInsetWitness ==
  /\ computed # None
  /\ computed.op = "rootMargin"
  /\ Contained(rectA, rectB)
  /\ rectA.width = 2 * U
  /\ rectA.height = MaxSpan * U
  /\ MarginZone.width = U
  /\ MarginZone.height = (MaxSpan - 2) * U

\* idx is the number of entries of the table before the first one that is
\* greater than the ratio r
IndexInTable(idx, r) ==
  /\ idx \in 0..Len(threshold)
  /\ idx > 0 => threshold[idx] * r.d <= ThresholdSteps * r.n
  /\ idx < Len(threshold) => threshold[idx + 1] * r.d > ThresholdSteps * r.n

\* the host observer of the visibility tracker and the host observer of
\* every fine tracker place the ratio of their target in the table
TableUsedByBoth ==
  /\ visLive =>
       \A i \in 1..Len(visTargets) :
         LET o == Observation(visTargets[i], NoMargin)
         IN  IndexInTable(RegOf(o).thresholdIndex, o.intersectionRatio)
  /\ \A id \in DOMAIN pio :
       pio[id].live =>
         LET o == Observation(pio[id].elem, pio[id].margins)
         IN  IndexInTable(RegOf(o).thresholdIndex, o.intersectionRatio)

\* the table has 1002 entries: i / 1000 for i in 0 .. 1000, and then 1
TableOf1002 ==
  /\ Len(threshold) = 1002
  /\ \A i \in 0..1000 : threshold[i + 1] = i
  /\ threshold[1002] = 1000

\* the table has 1001 entries: i / 1000 for i in 0 .. 999, and then 1
TableOf1001 ==
  /\ Len(threshold) = 1001
  /\ \A i \in 0..999 : threshold[i + 1] = i
  /\ threshold[1001] = 1000
  /\ \A i \in 1..1000 : threshold[i] < threshold[i + 1]

\* C33 as stated: the resolution table is a fixed ascending sequence of
\* 1002 ratios, i / 1000 for every i in 0 .. 1000 followed by a final 1,
\* and it is the table of thresholds of both the visibility tracker and
\* the fine trackers.
ResolutionTableOf1002 == TableOf1002 /\ TableUsedByBoth

\* C33: the resolution table is a fixed strictly ascending sequence of 1001
\* ratios, i / 1000 for every i in 0 .. 999 followed by a final 1, and it
\* is the table of thresholds of both the visibility tracker and the fine
\* trackers.
ResolutionTable == TableOf1001 /\ TableUsedByBoth

\* the visibility tracker observes e1 and a fine tracker of e1 observes it
\* at a ratio strictly between two entries of the table
ResolutionTableWitness ==
  /\ visLive
  /\ InSeq(visTargets, "e1")
  /\ visReg["e1"] = RegOf(Observation("e1", NoMargin))
  /\ \E id \in DOMAIN pio :
       /\ pio[id].live
       /\ pio[id].elem = "e1"
       /\ pio[id].reg = RegOf(Observation("e1", pio[id].margins))
       /\ pio[id].reg.thresholdIndex \in 2..1000

\* C34: after disconnect() of a fine tracker its intersection callback has
\* no effect: for a batch the host had queued before the disconnect it
\* gives nothing to the engine and makes no new subscription.
DisconnectedTrackerIsInert ==
  \A id \in DOMAIN pio : \A k \in 1..Len(pio[id].pending) :
    ~pio[id].live =>
      LET R == onIntersection(Mem, id, pio[id].pending[k])
      IN  /\ R.calls = calls
          /\ R.gated = gated
          /\ R.pos = positions
          /\ ~R.pio[id].live
          /\ R.pio[id].reg = pio[id].reg

\* C35: after disconnect() followed by observe(e), for a visible element e
\* that was observed and reported before the disconnect and has not
\* changed, the callback is invoked again with an entry for e: once the
\* host has nothing more to deliver, there is an invocation after the
\* second observe(e), and it has an entry for e.
ReusableAfterDisconnect ==
  \A e \in Elems :
    (/\ Ran(<<ObserveOp(e), DisconnectOp, ObserveOp(e)>>)
     /\ Visible(e)
     /\ hist[2].at = 1
     /\ For(e, calls[1]) # <<>>
     /\ Quiescent) =>
      /\ Len(calls) > hist[3].at
      /\ For(e, calls[Len(calls)]) # <<>>

\* nothing is queued for a fine tracker of e and the host has nothing to
\* report to one
TrackersQuiet(e) ==
  \A id \in DOMAIN pio :
    pio[id].elem = e => pio[id].pending = <<>> /\ ~PIODue(id)

\* C36: once the geometry of an element and the root bounds stop changing,
\* the element's fine tracker becomes quiet for good: only finitely many
\* subscriptions and change entries follow the last change.
TrackersSettle == \A e \in Elems : <>[]TrackersQuiet(e)

\* after e1 was reported and then changed, its tracker reported the change,
\* subscribed anew and is quiet
TrackersSettleWitness ==
  /\ nops = 2
  /\ Len(EntriesOf("e1")) >= 2
  /\ EntriesOf("e1")[2].boundingClientRect # EntriesOf("e1")[1].boundingClientRect
  /\ EntriesOf("e1")[2].isIntersecting
  /\ positionObservers["e1"] # 0
  /\ pio[positionObservers["e1"]].live
  /\ pio[positionObservers["e1"]].previousIntersectionRatio # None
  /\ TrackersQuiet("e1")
  /\ Quiescent

PositiveArea(r) == r.width > 0 /\ r.height > 0

\* C37: every entry the callback was given says isIntersecting exactly when
\* its intersectionRect has positive width and height, and no delivered
\* intersectionRect has a negative width or height.
DeliveredIntersectingIsPositiveArea ==
  \A i \in 1..Len(Flatten(calls)) :
    LET entry == Flatten(calls)[i]
    IN  /\ entry.isIntersecting <=> PositiveArea(entry.intersectionRect)
        /\ entry.intersectionRect.width >= 0
        /\ entry.intersectionRect.height >= 0

\* C38: in every reachable state the engine's ResizeObserver observes an
\* element exactly when the engine holds a fine tracker record for it.
SizeSubscriptionIffTracker ==
  \A e \in Elems : InSeq(roTargets, e) <=> positionObservers[e] # 0

\* e1 was tracked and left the view, so that its tracker record and its size
\* subscription are both gone, while e2 is tracked and subscribed
SizeSubscriptionIffTrackerWitness ==
  /\ Len(EntriesOf("e1")) >= 2
  /\ ~EntriesOf("e1")[Len(EntriesOf("e1"))].isIntersecting
  /\ positionObservers["e1"] = 0
  /\ ~InSeq(roTargets, "e1")
  /\ positionObservers["e2"] # 0
  /\ InSeq(roTargets, "e2")
  /\ Quiescent

====
